---- MODULE Spec2Model ----
(***************************************************************************)
(* Model of the extraction and consensus-merge engine of the onboarding    *)
(* form filler: the parallel dispatcher (extract_from_multiple_sources),   *)
(* merge_answers with its conflict resolver, calibrate_confidence, and the *)
(* run orchestration of _do_extraction (baseline reconciliation and manual *)
(* overrides).                                                             *)
(*                                                                         *)
(* Texts (answers, evidence, source labels, override values) are sequences *)
(* of tokens, so that concatenation, joining, stripping and length are     *)
(* computed and not assumed.  A Python dict is a function whose DOMAIN is   *)
(* the set of keys present.                                                *)
(***************************************************************************)
EXTENDS Integers, Sequences, FiniteSets, TLC

\* ------------------------------------------------------------------ bounds
\* Largest number of candidate answers in one candidate mapping.
MaxCands == 2
\* Largest number of entries in one response of the LLM service.
MaxEntries == 2
\* Largest number of extraction jobs in one dispatch.
MaxJobs == 3
\* Largest length of a text given to _chunk_text, and largest max_chars.
MaxLen == 7

\* ------------------------------------------------------------- the schema
HIGH == "high"
MEDIUM == "medium"
LOW == "low"
MISSING == "missing"
Confidence == {HIGH, MEDIUM, LOW, MISSING}

\* Python's None, as an answer or a value of the structured data.
None == <<"None">>
NoProperty == "no_property"

\* Two fields of the 92-field schema: one with a structured (HubSpot)
\* property, one filled from documents only.
RFI_FIELDS ==
    << [key |-> "company_name", hubspot_property |-> "name"],
       [key |-> "ms_licensing", hubspot_property |-> NoProperty] >>

NumFields == Len(RFI_FIELDS)
FieldKeys == {RFI_FIELDS[i].key : i \in 1..NumFields}

\* A Python int, written with its decimal digits: the structured data holds
\* company.employee_count, an int, next to its texts.
PyInt(digits) == <<"int">> \o digits
IsInt(v) == v # <<>> /\ Head(v) = "int"
\* str(v): the digits of an int, a text as it is.
str(v) == IF IsInt(v) THEN Tail(v) ELSE v

\* Python truthiness of a str | int | None value.
Truthy(t) == t # None /\ t # <<>> /\ t # PyInt(<<"0">>)

EmptyDict == [k \in {} |-> k]
Get(d, k, default) == IF k \in DOMAIN d THEN d[k] ELSE default

ExtractedAnswer(k, a, c, s, e) ==
    [field_key |-> k, answer |-> a, confidence |-> c, source |-> s, evidence |-> e]

RECURSIVE Join(_, _)
\* sep.join(texts)
Join(texts, sep) ==
    IF texts = <<>> THEN <<>>
    ELSE IF Len(texts) = 1 THEN texts[1]
    ELSE texts[1] \o sep \o Join(Tail(texts), sep)

RECURSIVE Distinct(_)
\* The distinct elements of a sequence, in order of first occurrence.
Distinct(s) ==
    IF s = <<>> THEN <<>>
    ELSE LET rest == Distinct(SubSeq(s, 1, Len(s) - 1))
             last == s[Len(s)]
         IN IF \E i \in 1..Len(rest) : rest[i] = last THEN rest ELSE Append(rest, last)

Reverse(s) == [i \in 1..Len(s) |-> s[Len(s) + 1 - i]]
Map(s, Op(_)) == [i \in 1..Len(s) |-> Op(s[i])]


\* ---------------------------------------------------------- set iteration
\* Source labels of the documents, in the order of their hash values under
\* the seed "s1_first".
S1 == <<"s1">>
S2 == <<"s2">>
LabelOrder == <<S1, S2>>

\* The iteration order of a Python set of strings follows the hash values of
\* the strings, which the process's hash seed fixes: one order per process,
\* either one possible.  (Collisions in the hash table, where the insertion
\* order also counts, are left out.)
HashSeeds == {"s1_first", "s2_first"}

\* list(set(labels)): the distinct labels in the iteration order of the set.
SetIteration(labels, seed) ==
    LET d == Distinct(labels)
        byHash == SelectSeq(LabelOrder, LAMBDA l : \E i \in 1..Len(d) : d[i] = l)
    IN IF seed = "s1_first" THEN byHash ELSE Reverse(byHash)

\* ------------------------------------------------------ conflict resolver
\* One entry of the JSON array the resolver is asked to return.  An entry
\* without "field_key" makes v["field_key"] raise KeyError.
NoKey == "no_key"
SYN == <<"s", "y", "n">>
VerdictEntries ==
    { [field_key |-> k, verdict |-> v[1], best_answer |-> v[2]] :
        k \in FieldKeys,
        v \in {<<"conflicting", None>>, <<"compatible", None>>, <<"compatible", SYN>>} }
    \cup {[field_key |-> NoKey, verdict |-> "conflicting", best_answer |-> None]}

RECURSIVE VerdictLoop(_, _)
\* for v in verdicts: ... (the loop that fills result and best_answers)
VerdictLoop(entries, acc) ==
    IF entries = <<>> \/ acc.raised THEN acc
    ELSE LET v == Head(entries)
             is_compatible == v.verdict = "compatible"
         IN IF v.field_key = NoKey
            THEN [acc EXCEPT !.raised = TRUE]
            ELSE VerdictLoop(Tail(entries),
                   [raised |-> FALSE,
                    verdicts |-> (v.field_key :> is_compatible) @@ acc.verdicts,
                    best_answers |->
                        IF is_compatible /\ Truthy(v.best_answer)
                        THEN (v.field_key :> v.best_answer) @@ acc.best_answers
                        ELSE acc.best_answers])

\* A response of the LLM service to the resolver's request: kind "error"
\* when the call raises (rate limit on the last attempt, any other API
\* error), "unparseable" when the text is not JSON, "list" with the entries.
ErrorResponse == [kind |-> "error", entries |-> <<>>]
UnparseableResponse == [kind |-> "unparseable", entries |-> <<>>]
ListResponse(entries) == [kind |-> "list", entries |-> entries]

\* _resolve_conflicts, as a function of the response it receives.
resolve_conflicts(conflict_fields, response) ==
    IF response.kind = "error"
    THEN [raised |-> TRUE, verdicts |-> EmptyDict, best_answers |-> EmptyDict]
    ELSE IF response.kind = "unparseable"
    THEN [raised |-> FALSE,
          verdicts |-> [k \in DOMAIN conflict_fields |-> FALSE],
          best_answers |-> EmptyDict]
    ELSE VerdictLoop(response.entries,
           [raised |-> FALSE, verdicts |-> EmptyDict, best_answers |-> EmptyDict])

\* ------------------------------------------------------------ merge_answers
priority(c) ==
    CASE c = HIGH -> 0 [] c = MEDIUM -> 1 [] c = LOW -> 2 [] OTHER -> 3

\* real_answers = [a for a in candidates if a.confidence != MISSING and a.answer]
RealAnswers(candidates) ==
    SelectSeq(candidates, LAMBDA a : a.confidence # MISSING /\ Truthy(a.answer))

\* Mutant: the candidates are left in arrival order.
SortByPriority_Unsorted(answers) == answers

\* real_answers.sort(key=priority): Python's sort is stable.
SortByPriority(answers) ==
    SelectSeq(answers, LAMBDA a : priority(a.confidence) = 0)
    \o SelectSeq(answers, LAMBDA a : priority(a.confidence) = 1)
    \o SelectSeq(answers, LAMBDA a : priority(a.confidence) = 2)
    \o SelectSeq(answers, LAMBDA a : priority(a.confidence) = 3)

HighConf(real_answers) == SelectSeq(real_answers, LAMBDA a : a.confidence = HIGH)

UniqueAnswers(high_conf) ==
    {high_conf[i].answer : i \in {j \in 1..Len(high_conf) : Truthy(high_conf[j].answer)}}

\* The guard of the HubSpot branch, with the test of hs_value.
HasStructured(f, hubspot_data) ==
    /\ hubspot_data # EmptyDict
    /\ f.hubspot_property # NoProperty
    /\ f.hubspot_property \in DOMAIN hubspot_data
    /\ Truthy(hubspot_data[f.hubspot_property])

StructuredAnswer(f, hubspot_data) ==
    ExtractedAnswer(f.key, str(hubspot_data[f.hubspot_property]), HIGH,
                    <<"HubSpot (structured)">>, <<"Direct CRM field">>)

MissingAnswer(f) == ExtractedAnswer(f.key, None, MISSING, <<>>, <<>>)

\* One iteration of "for f in RFI_FIELDS" on the locals merged,
\* potential_conflicts and conflict_indices.
MergeStep(st, f, all_answers, hubspot_data) ==
    LET candidates == Get(all_answers, f.key, <<>>)
        real_answers == SortByPriority(RealAnswers(candidates))
        high_conf == HighConf(real_answers)
        deferred == Len(high_conf) > 1 /\ Cardinality(UniqueAnswers(high_conf)) > 1
    IN IF HasStructured(f, hubspot_data)
       THEN [st EXCEPT !.merged = Append(@, StructuredAnswer(f, hubspot_data))]
       ELSE IF real_answers = <<>>
       THEN [st EXCEPT !.merged = Append(@, MissingAnswer(f))]
       ELSE [merged |-> Append(st.merged, real_answers[1]),
             potential_conflicts |->
                 IF deferred THEN (f.key :> high_conf) @@ st.potential_conflicts
                 ELSE st.potential_conflicts,
             conflict_indices |->
                 IF deferred THEN (f.key :> Len(st.merged) + 1) @@ st.conflict_indices
                 ELSE st.conflict_indices]

RECURSIVE MergeLoop(_, _, _, _)
MergeLoop(i, st, all_answers, hubspot_data) ==
    IF i > NumFields THEN st
    ELSE MergeLoop(i + 1, MergeStep(st, RFI_FIELDS[i], all_answers, hubspot_data),
                   all_answers, hubspot_data)

MergeLocals(all_answers, hubspot_data) ==
    MergeLoop(1, [merged |-> <<>>, potential_conflicts |-> EmptyDict,
                  conflict_indices |-> EmptyDict], all_answers, hubspot_data)

CombinedSources(high_conf, seed) ==
    Join(SetIteration(Map(high_conf, LAMBDA a : a.source), seed), <<", ">>)

CombinedEvidence(high_conf) ==
    Join(Map(SelectSeq(high_conf, LAMBDA a : Truthy(a.evidence)), LAMBDA a : a.evidence),
         <<" / ">>)

RECURSIVE Longest(_)
\* max(high_conf, key=lambda a: len(a.answer or "")): the first of the longest.
Longest(high_conf) ==
    IF Len(high_conf) = 1 THEN high_conf[1]
    ELSE LET rest == Longest(Tail(high_conf))
         IN IF Len(rest.answer) > Len(high_conf[1].answer) THEN rest ELSE high_conf[1]

\* Mutant: the synthesized answer is ignored, the longest candidate wins.
CompatibleAnswer_LongestOnly(field_key, high_conf, best_answers, seed) ==
    ExtractedAnswer(field_key, Longest(high_conf).answer, HIGH,
                    CombinedSources(high_conf, seed), CombinedEvidence(high_conf))

CompatibleAnswer(field_key, high_conf, best_answers, seed) ==
    LET synthesized == Get(best_answers, field_key, None)
        answer == IF Truthy(synthesized) THEN synthesized ELSE Longest(high_conf).answer
    IN ExtractedAnswer(field_key, answer, HIGH,
                       CombinedSources(high_conf, seed), CombinedEvidence(high_conf))

\* Mutant: the first high-confidence candidate is emitted, downgraded.
ConflictingAnswer_PicksFirst(field_key, high_conf, seed) ==
    [high_conf[1] EXCEPT !.confidence = MEDIUM]

ConflictingAnswer(field_key, high_conf, seed) ==
    LET combined == Join(Map(high_conf,
                             LAMBDA a : <<"[">> \o a.source \o <<"]: ">> \o a.answer),
                         <<" | ">>)
    IN ExtractedAnswer(field_key, <<"CONFLICTING: ">> \o combined, MEDIUM,
                       CombinedSources(high_conf, seed), CombinedEvidence(high_conf))

\* Mutant: the verdicts read before the resolver raised are kept.
Resolution_KeepsPartial(potential_conflicts, extractor, response) ==
    LET r == resolve_conflicts(potential_conflicts, response)
        deferred == DOMAIN potential_conflicts
        verdicts == [k \in deferred |-> Get(r.verdicts, k, FALSE)]
    IN IF potential_conflicts = EmptyDict \/ ~extractor
       THEN [verdicts |-> EmptyDict, best_answers |-> EmptyDict]
       ELSE [verdicts |-> verdicts,
             best_answers |-> [k \in {d \in deferred \cap DOMAIN r.best_answers : verdicts[d]}
                                 |-> r.best_answers[k]]]

\* The verdicts and best answers merge_answers reads for the deferred fields
\* (verdicts.get(field_key, False), best_answers.get(field_key) of a
\* compatible field): those of the resolver, all-conflicting when the
\* resolver raises, none without extractor.
Resolution(potential_conflicts, extractor, response) ==
    LET r == resolve_conflicts(potential_conflicts, response)
        deferred == DOMAIN potential_conflicts
        verdicts == IF r.raised THEN [k \in deferred |-> FALSE]
                    ELSE [k \in deferred |-> Get(r.verdicts, k, FALSE)]
        best_answers == IF r.raised THEN EmptyDict ELSE r.best_answers
    IN IF potential_conflicts = EmptyDict \/ ~extractor
       THEN [verdicts |-> EmptyDict, best_answers |-> EmptyDict]
       ELSE [verdicts |-> verdicts,
             best_answers |-> [k \in {d \in deferred \cap DOMAIN best_answers : verdicts[d]}
                                 |-> best_answers[k]]]

\* The entry written to merged[idx] for a deferred field.
ResolvedAnswer(field_key, high_conf, extractor, resolution, seed) ==
    IF extractor /\ Get(resolution.verdicts, field_key, FALSE)
    THEN CompatibleAnswer(field_key, high_conf, resolution.best_answers, seed)
    ELSE ConflictingAnswer(field_key, high_conf, seed)

PatchConflicts(st, extractor, resolution, seed) ==
    [i \in 1..Len(st.merged) |->
        IF \E k \in DOMAIN st.potential_conflicts : st.conflict_indices[k] = i
        THEN LET k == CHOOSE k \in DOMAIN st.potential_conflicts :
                          st.conflict_indices[k] = i
             IN ResolvedAnswer(k, st.potential_conflicts[k], extractor, resolution, seed)
        ELSE st.merged[i]]

merge_answers(all_answers, hubspot_data, extractor, response, seed) ==
    LET st == MergeLocals(all_answers, hubspot_data)
    IN PatchConflicts(st, extractor,
                      Resolution(st.potential_conflicts, extractor, response), seed)


\* ------------------------------------------------------------------ inputs
A == <<"a">>
AB == <<"a", "b">>
E1 == <<"e1">>
E2 == <<"e2">>

\* What one extraction job can return for a field: answer, confidence,
\* source label and evidence.  Usable and unusable candidates, equal and
\* different texts, one and several sources, with and without evidence.
CandidateShapes ==
    { [answer |-> A, confidence |-> HIGH, source |-> S1, evidence |-> E1],
      [answer |-> A, confidence |-> HIGH, source |-> S2, evidence |-> <<>>],
      [answer |-> AB, confidence |-> HIGH, source |-> S2, evidence |-> E2],
      [answer |-> A, confidence |-> MEDIUM, source |-> S1, evidence |-> E1],
      [answer |-> AB, confidence |-> MEDIUM, source |-> S2, evidence |-> E2],
      [answer |-> A, confidence |-> LOW, source |-> S1, evidence |-> E1],
      [answer |-> A, confidence |-> MISSING, source |-> S1, evidence |-> E1],
      [answer |-> <<>>, confidence |-> HIGH, source |-> S2, evidence |-> <<>>] }

\* The candidates of field k built from a sequence of shapes.
Keyed(k, shapes) ==
    [i \in 1..Len(shapes) |->
        ExtractedAnswer(k, shapes[i].answer, shapes[i].confidence,
                        shapes[i].source, shapes[i].evidence)]

\* The mappings field key -> candidates with at most MaxCands candidates.
CandidateMaps ==
    UNION { { [k \in FieldKeys |->
                 IF k = RFI_FIELDS[1].key THEN Keyed(k, s1) ELSE Keyed(k, s2)] :
              s1 \in [1..n[1] -> CandidateShapes], s2 \in [1..n[2] -> CandidateShapes] } :
            n \in {m \in (0..MaxCands) \X (0..MaxCands) : m[1] + m[2] <= MaxCands} }

H == <<"h">>
\* The structured data of a deal: no company, a company without a name, a
\* company with a name.
HubspotInputs == {EmptyDict, [p \in {"name"} |-> None], [p \in {"name"} |-> H]}
\* The structured data of the merge harness: absent, or with a usable name.
StructuredInputs == {hd \in HubspotInputs : hd = EmptyDict \/ Truthy(hd["name"])}

ResolverResponses ==
    {ErrorResponse, UnparseableResponse}
    \cup {ListResponse(e) : e \in UNION {[1..n -> VerdictEntries] : n \in 0..NumFields}}

\* The response when no request is sent.
NoResponse == ListResponse(<<>>)


\* ------------------------------------------------------------------- state
VARIABLES
    all_answers,          \* field key -> list of candidates
    hubspot_data,         \* structured data: property -> value
    extractor,            \* whether merge_answers is given an extractor
    hash_seed,            \* the process's set iteration order
    merged,               \* the answer list
    potential_conflicts,  \* merge_answers' local: deferred key -> high_conf
    resolution,           \* the verdicts and best answers merge_answers used
    resolver_outcome,     \* what the resolver's request met: the response's kind and keys
    perm_answers,         \* all_answers with each list permuted
    merged_perm,          \* merge_answers(perm_answers), same resolver verdicts
    merged_again,         \* the result of a second call on all_answers
    resolution_again,     \* the verdicts and best answers of the second call
    mpc,                  \* position of the merge harness
    rpc,                  \* position of _do_extraction
    run_status,           \* Run.status
    manual_overrides,     \* field key -> text, the run's parameter
    pre_calibration,      \* the list calibrate_confidence was called with
    baseline_map,         \* the baseline answers step 7 has read
    pre_reconcile,        \* the list before step 7
    from_baseline,        \* the keys whose entry step 7 took from the baseline
    error_message,        \* Run.error_message
    excel_blob_path,      \* Run.excel_blob_path
    calibration_outcome,  \* what the calibration request of the run met
    llm_called,           \* whether the run has sent a request to the LLM service
    sources,              \* whether the list of sources of the run is empty
    jobs,                 \* extract_from_multiple_sources' jobs, with what each returns
    job_state,            \* per job: queued, running, done or collected
    dpc,                  \* position of extract_from_multiple_sources
    text,                 \* _chunk_text's argument, a sequence of characters
    max_chars,            \* _chunk_text's argument
    chunks,               \* the list _chunk_text returned
    cpc,                  \* position of the call of _chunk_text
    attempt,              \* extract_from_text's loop variable
    requests,             \* the calls of client.messages.create made so far
    waits,                \* the durations of the sleeps made so far, in seconds
    extracted,            \* the list extract_from_text returned
    raised_error,         \* the exception extract_from_text raised, "" if none
    epc,                  \* position of extract_from_text
    fields,               \* extract_from_text's argument, the fields to ask for
    raw,                  \* the JSON array of the response extract_from_text parsed
    answers_json,         \* Run.answers_json of the newest completed run of a chain
    fresh_answers,        \* the list steps 5 to 6b gave that run
    found_before,         \* the keys usable in an earlier run of the chain
    completed_runs,       \* the number of completed runs of the chain
    schema_field,         \* the field of the schema one pass of the merge loop is for
    cache,                \* _cache: its entries (key, expires) in insertion order
    clock,                \* time.monotonic()
    calls,                \* per thread: the call of a wrapped function it is in
    cleared,              \* what the last call of clear_cache returned, -1 before it
    row_status,           \* the run's row in the database: Run.status
    row_answers_json,     \* Run.answers_json of the row, as the list it encodes
    row_stats_json,       \* Run.stats_json of the row
    retry_key,            \* body.field_key of the retry-field request
    loaded_run,           \* the row as the session of retry_field loaded it
    before_write,         \* the stored list just before the write of the retry
    write_fresh,          \* the write of the retry is the latest commit
    tpc                   \* where retry_field is

inputVars == <<all_answers, hubspot_data, extractor, hash_seed>>
mergeVars == <<merged, potential_conflicts, resolution, resolver_outcome>>
harnessVars == <<perm_answers, merged_perm, merged_again, resolution_again, mpc>>
runVars == <<rpc, run_status, manual_overrides, pre_calibration, baseline_map,
             pre_reconcile, from_baseline, error_message, excel_blob_path,
             calibration_outcome, llm_called, sources>>
dispatchVars == <<jobs, job_state, dpc>>
chunkVars == <<text, max_chars, chunks, cpc>>
extractVars == <<attempt, requests, waits, extracted, raised_error, epc, fields, raw>>
chainVars == <<answers_json, fresh_answers, found_before, completed_runs>>
fieldVars == <<schema_field>>
cacheVars == <<cache, clock, calls, cleared>>
retryVars == <<row_status, row_answers_json, row_stats_json, retry_key, loaded_run,
               before_write, write_fresh, tpc>>
auxVars == <<chunkVars, extractVars, chainVars, fieldVars, cacheVars, retryVars>>
vars == <<inputVars, mergeVars, harnessVars, runVars, dispatchVars, auxVars>>

\* No call of _chunk_text is under way.
ChunkOff == text = <<>> /\ max_chars = 0 /\ chunks = <<>> /\ cpc = "off"
\* No call of extract_from_text is under way.
ExtractOff ==
    /\ attempt = 0 /\ requests = 0 /\ waits = <<>> /\ extracted = <<>>
    /\ raised_error = "" /\ epc = "off" /\ fields = <<>> /\ raw = <<>>
\* No chain of runs is followed.
ChainOff ==
    /\ answers_json = <<>> /\ fresh_answers = <<>>
    /\ found_before = {} /\ completed_runs = 0
\* No single pass of the merge loop is followed.
FieldOff == schema_field = [key |-> "none", hubspot_property |-> NoProperty]
\* No call of a cached function is followed.
CacheOff == cache = <<>> /\ clock = 0 /\ calls = <<>> /\ cleared = -1
\* No retry-field request is followed.
RetryOff ==
    /\ row_status = "" /\ row_answers_json = <<>> /\ row_stats_json = <<>>
    /\ retry_key = "" /\ loaded_run = <<>> /\ before_write = <<>>
    /\ write_fresh = FALSE /\ tpc = "off"
AuxOff == ChunkOff /\ ExtractOff /\ ChainOff /\ FieldOff /\ CacheOff /\ RetryOff

NoResolution == [verdicts |-> EmptyDict, best_answers |-> EmptyDict]

\* No request was sent to the resolver.
NotCalled == [called |-> FALSE, kind |-> "none", keyless |-> FALSE, keys |-> {}]

\* What the request of _resolve_conflicts met: the kind of the response,
\* whether an entry lacks "field_key", and the field keys the entries name.
ResolverOutcome(conflict_fields, ex, response) ==
    IF conflict_fields = EmptyDict \/ ~ex THEN NotCalled
    ELSE [called |-> TRUE,
          kind |-> response.kind,
          keyless |-> \E i \in DOMAIN response.entries :
                          response.entries[i].field_key = NoKey,
          keys |-> {response.entries[i].field_key : i \in DOMAIN response.entries}
                     \ {NoKey}]

\* ------------------------------------------------------- merge_answers calls
\* Mutant: the winner of each field is popped from the caller's list.
all_answers_after_merge_Popped(aa) ==
    [k \in DOMAIN aa |-> IF aa[k] = <<>> THEN <<>> ELSE Tail(aa[k])]

\* merge_answers copies the candidates into real_answers before it filters
\* and sorts: the caller's mapping is as it was.
all_answers_after_merge(aa) == aa

\* The responses the resolver can receive in a call on these arguments: one
\* request is sent only with an extractor and at least one deferred field.
ResponsesFor(aa, hd, ex) ==
    IF ex /\ MergeLocals(aa, hd).potential_conflicts # EmptyDict
    THEN ResolverResponses ELSE {NoResponse}

InitMerge ==
    /\ all_answers \in CandidateMaps
    /\ hubspot_data \in StructuredInputs
    /\ extractor \in BOOLEAN
    /\ hash_seed \in HashSeeds
    /\ merged = <<>>
    /\ potential_conflicts = EmptyDict
    /\ resolution = NoResolution
    /\ resolver_outcome = NotCalled
    /\ perm_answers = all_answers
    /\ merged_perm = <<>>
    /\ merged_again = <<>>
    /\ resolution_again = NoResolution
    /\ mpc = "start"
    /\ rpc = "off"
    /\ run_status = "none"
    /\ manual_overrides = EmptyDict
    /\ pre_calibration = <<>>
    /\ baseline_map = EmptyDict
    /\ pre_reconcile = <<>>
    /\ from_baseline = {}
    /\ error_message = ""
    /\ excel_blob_path = "none"
    /\ calibration_outcome = "none"
    /\ llm_called = FALSE
    /\ sources = "unknown"
    /\ AuxOff
    /\ jobs = <<>>
    /\ job_state = <<>>
    /\ dpc = "off"

\* merged = merge_answers(all_answers, hubspot_data, extractor)
MergeCall ==
    /\ mpc = "start"
    /\ \E response \in ResponsesFor(all_answers, hubspot_data, extractor) :
        LET st == MergeLocals(all_answers, hubspot_data)
        IN /\ merged' = merge_answers(all_answers, hubspot_data, extractor,
                                      response, hash_seed)
           /\ potential_conflicts' = st.potential_conflicts
           /\ resolution' = Resolution(st.potential_conflicts, extractor, response)
           /\ resolver_outcome' =
                  ResolverOutcome(st.potential_conflicts, extractor, response)
    /\ all_answers' = all_answers_after_merge(all_answers)
    /\ mpc' = "merged"
    /\ UNCHANGED <<hubspot_data, extractor, hash_seed, perm_answers, merged_perm,
                   merged_again, resolution_again, runVars, dispatchVars, auxVars>>

Perms(n) == {p \in [1..n -> 1..n] : \A i, j \in 1..n : p[i] = p[j] => i = j}
Permuted(s, p) == [i \in 1..Len(s) |-> s[p[i]]]

\* The same candidates in another arrival order, merged with the verdicts the
\* resolver gave in the first call.
MergePermuted ==
    /\ mpc = "merged"
    /\ \E p1 \in Perms(Len(all_answers[RFI_FIELDS[1].key])),
          p2 \in Perms(Len(all_answers[RFI_FIELDS[2].key])) :
        LET pa == [k \in FieldKeys |->
                      IF k = RFI_FIELDS[1].key THEN Permuted(all_answers[k], p1)
                      ELSE Permuted(all_answers[k], p2)]
        IN /\ perm_answers' = pa
           /\ merged_perm' = PatchConflicts(MergeLocals(pa, hubspot_data), extractor,
                                            resolution, hash_seed)
    /\ mpc' = "permuted"
    /\ UNCHANGED <<inputVars, mergeVars, merged_again, resolution_again, runVars, dispatchVars, auxVars>>

\* A second call of merge_answers on the mapping the first call left.
MergeAgain ==
    /\ mpc = "merged"
    /\ \E response \in ResponsesFor(all_answers, hubspot_data, extractor) :
        /\ merged_again' = merge_answers(all_answers, hubspot_data, extractor,
                                         response, hash_seed)
        /\ resolution_again' =
               Resolution(MergeLocals(all_answers, hubspot_data).potential_conflicts,
                          extractor, response)
    /\ mpc' = "again"
    /\ UNCHANGED <<inputVars, mergeVars, perm_answers, merged_perm, runVars, dispatchVars, auxVars>>

NextMerge == MergeCall \/ MergePermuted \/ MergeAgain

SpecMerge == InitMerge /\ [][NextMerge]_vars


\* ---------------------------------------------------- claims on merge_answers
IndexOf(k) == CHOOSE i \in 1..NumFields : RFI_FIELDS[i].key = k
Usable(a) == a.confidence # MISSING /\ Truthy(a.answer)
UsableOf(aa, k) == SelectSeq(aa[k], Usable)
\* The usable high-confidence candidates of field k, in arrival order.
HighOf(aa, k) == SelectSeq(aa[k], LAMBDA a : Usable(a) /\ a.confidence = HIGH)
IsPrefix(p, t) == Len(p) <= Len(t) /\ SubSeq(t, 1, Len(p)) = p
Orderings(S) == {p \in [1..Cardinality(S) -> S] : \A i, j \in DOMAIN p : p[i] = p[j] => i = j}

\* The usable candidates of field k that no usable candidate of k outranks.
BestOf(aa, k) ==
    SelectSeq(UsableOf(aa, k),
              LAMBDA a : \A i \in 1..Len(UsableOf(aa, k)) :
                             priority(a.confidence) <= priority(UsableOf(aa, k)[i].confidence))

\* C7 as stated: any two arrival orders of the same candidates give the same
\* merged answer for every field.
C7_OrderIndependent ==
    mpc = "permuted" => merged_perm = merged

\* C7 amended: any two arrival orders of the same candidates give every field
\* the same confidence, and the same merged answer when the field has a
\* structured value or at most one usable candidate of the best rank.
C7_OrderIndependentConfidence ==
    mpc = "permuted" =>
        \A i \in 1..NumFields :
            /\ merged_perm[i].confidence = merged[i].confidence
            /\ (HasStructured(RFI_FIELDS[i], hubspot_data)
                \/ Len(BestOf(all_answers, RFI_FIELDS[i].key)) <= 1)
               => merged_perm[i] = merged[i]

C7_Witness ==
    /\ mpc = "permuted"
    /\ \E i \in 1..NumFields :
        /\ ~HasStructured(RFI_FIELDS[i], hubspot_data)
        /\ perm_answers[RFI_FIELDS[i].key] # all_answers[RFI_FIELDS[i].key]
        /\ Len(UsableOf(all_answers, RFI_FIELDS[i].key)) >= 2
        /\ Len(BestOf(all_answers, RFI_FIELDS[i].key)) = 1

SourceAnswerPairs(cands) ==
    Join([i \in 1..Len(cands) |-> <<"[">> \o cands[i].source \o <<"]: ">> \o cands[i].answer],
         <<" | ">>)

\* C9: a deferred field whose verdict is conflicting gets the text
\* "CONFLICTING: " followed by one "[source]: answer" pair per high-confidence
\* candidate, with confidence medium, and no candidate's answer as its text.
C9_ConflictingEmitted ==
    mpc # "start" =>
        \A k \in DOMAIN potential_conflicts :
            (extractor /\ ~resolution.verdicts[k]) =>
                LET m == merged[IndexOf(k)]
                    hc == HighOf(all_answers, k)
                IN /\ m.field_key = k
                   /\ m.answer = <<"CONFLICTING: ">> \o SourceAnswerPairs(hc)
                   /\ m.confidence = MEDIUM
                   /\ \A i \in 1..Len(all_answers[k]) : m.answer # all_answers[k][i].answer

C9_Witness ==
    /\ mpc = "merged"
    /\ extractor
    /\ \E k \in DOMAIN potential_conflicts :
        /\ ~resolution.verdicts[k]
        /\ IndexOf(k) = 2
        /\ Len(HighOf(all_answers, k)) >= 2

\* C10: a deferred field whose verdict is compatible gets confidence high, a
\* text that does not begin with "CONFLICTING:", namely the synthesized answer
\* when one is supplied and else a longest high-confidence answer, the
\* involved source labels joined by ", " and the evidence joined by " / ".
C10_CompatibleEmitted ==
    mpc # "start" =>
        \A k \in DOMAIN potential_conflicts :
            (extractor /\ resolution.verdicts[k]) =>
                LET m == merged[IndexOf(k)]
                    hc == HighOf(all_answers, k)
                    labels == {hc[i].source : i \in 1..Len(hc)}
                    proofs == SelectSeq([i \in 1..Len(hc) |-> hc[i].evidence],
                                        LAMBDA e : e # <<>>)
                IN /\ m.field_key = k
                   /\ m.confidence = HIGH
                   /\ ~IsPrefix(<<"CONFLICTING: ">>, m.answer)
                   /\ k \in DOMAIN resolution.best_answers
                        => m.answer = resolution.best_answers[k]
                   /\ k \notin DOMAIN resolution.best_answers
                        => /\ \E i \in 1..Len(hc) : m.answer = hc[i].answer
                           /\ \A i \in 1..Len(hc) : Len(hc[i].answer) <= Len(m.answer)
                   /\ \E o \in Orderings(labels) : m.source = Join(o, <<", ">>)
                   /\ m.evidence = Join(proofs, <<" / ">>)

C10_Witness ==
    /\ mpc = "merged"
    /\ extractor
    /\ \E k \in DOMAIN potential_conflicts :
        /\ resolution.verdicts[k]
        /\ k \notin DOMAIN resolution.best_answers
        /\ Len(HighOf(all_answers, k)) >= 2
        /\ Cardinality({HighOf(all_answers, k)[i].source :
                            i \in 1..Len(HighOf(all_answers, k))}) = 2


\* ------------------------------------------------------ calibrate_confidence
\* One entry of the JSON array the calibration request asks for.  "bogus" is
\* a confidence value outside the enum: Confidence(...) raises ValueError.
CalibrationEntries ==
    [field_key : {RFI_FIELDS[1].key}, revised_confidence : {HIGH, MEDIUM, LOW}]
    \cup [field_key : {RFI_FIELDS[2].key}, revised_confidence : {MEDIUM, LOW}]
    \cup {[field_key |-> NoKey, revised_confidence |-> LOW],
          [field_key |-> RFI_FIELDS[1].key, revised_confidence |-> "bogus"]}

\* A response whose text is JSON but not a list of objects: the loop over the
\* revisions raises (TypeError on a number, AttributeError on a string).
NotAListResponse == [kind |-> "not_list", entries |-> <<>>]

CalibrationResponses ==
    {ErrorResponse, UnparseableResponse, NotAListResponse}
    \cup {ListResponse(e) : e \in UNION {[1..n -> CalibrationEntries] : n \in 0..MaxEntries}}

\* a.confidence in (HIGH, MEDIUM) and a.evidence and a.answer
Reviewable(a) ==
    a.confidence \in {HIGH, MEDIUM} /\ Truthy(a.evidence) /\ Truthy(a.answer)

\* downgrade_order.get(c, 0)
downgrade_order(c) ==
    CASE c = HIGH -> 0 [] c = MEDIUM -> 1 [] c = LOW -> 2 [] OTHER -> 0

RECURSIVE RevisionLoop(_, _)
\* for rev in revisions: revision_map[rev["field_key"]] = Confidence(...)
RevisionLoop(entries, acc) ==
    IF entries = <<>> \/ acc.raised THEN acc
    ELSE LET rev == Head(entries)
         IN IF rev.revised_confidence \notin Confidence \/ rev.field_key = NoKey
            THEN [acc EXCEPT !.raised = TRUE]
            ELSE RevisionLoop(Tail(entries),
                   [raised |-> FALSE,
                    revision_map |-> (rev.field_key :> rev.revised_confidence)
                                     @@ acc.revision_map])

\* The loop "for a in answers" that applies the revisions.
ApplyRevisions(answers, revision_map) ==
    [i \in 1..Len(answers) |->
        IF /\ answers[i].field_key \in DOMAIN revision_map
           /\ downgrade_order(revision_map[answers[i].field_key])
                > downgrade_order(answers[i].confidence)
        THEN [answers[i] EXCEPT !.confidence = revision_map[answers[i].field_key]]
        ELSE answers[i]]

\* Mutant: every answer of confidence high or medium is sent for review.
Reviewed_WithoutEvidence(answers) ==
    SelectSeq(answers, LAMBDA a : a.confidence \in {HIGH, MEDIUM})

\* to_review = [a for a in answers if ...]
Reviewed(answers) == SelectSeq(answers, Reviewable)

\* calibrate_confidence, as a function of the response it receives: whether
\* it raises, and the list it returns.
calibrate_confidence(answers, response) ==
    LET to_review == Reviewed(answers)
        revs == RevisionLoop(response.entries,
                             [raised |-> FALSE, revision_map |-> EmptyDict])
    IN IF to_review = <<>> THEN [raised |-> FALSE, answers |-> answers]
       ELSE IF response.kind \in {"error", "not_list"}
       THEN [raised |-> TRUE, answers |-> answers]
       ELSE IF response.kind = "unparseable" THEN [raised |-> FALSE, answers |-> answers]
       ELSE IF revs.raised THEN [raised |-> TRUE, answers |-> answers]
       ELSE [raised |-> FALSE, answers |-> ApplyRevisions(answers, revs.revision_map)]

\* What the calibration request met: the call failed, the text was not JSON,
\* not a list, a list with an entry that has an unknown confidence value or
\* no "field_key", or a list of well-formed revisions.
CalibrationOutcome(response) ==
    IF response.kind # "list" THEN response.kind
    ELSE IF \E i \in DOMAIN response.entries :
                \/ response.entries[i].field_key = NoKey
                \/ response.entries[i].revised_confidence \notin Confidence
    THEN "malformed"
    ELSE "revisions"

\* ---------------------------------------------------- baseline reconciliation
C == <<"c">>
\* What a stored answer of an earlier run can be: produced by a run, or saved
\* by update_answers.
BaselineShapes ==
    { [answer |-> None, confidence |-> MISSING, source |-> <<>>, evidence |-> <<>>],
      [answer |-> C, confidence |-> LOW, source |-> S1, evidence |-> E1],
      [answer |-> C, confidence |-> MEDIUM, source |-> S1, evidence |-> E1],
      [answer |-> C, confidence |-> HIGH, source |-> S1, evidence |-> E1],
      [answer |-> None, confidence |-> LOW, source |-> <<>>, evidence |-> <<>>] }

\* The baseline_map of step 7; the empty map also stands for a run without
\* baseline_run_id, a baseline run that is gone or one without answers.
BaselineMaps ==
    UNION { { [k \in D |-> ExtractedAnswer(k, sh[k].answer, sh[k].confidence,
                                           sh[k].source, sh[k].evidence)] :
              sh \in [D -> BaselineShapes] } : D \in SUBSET FieldKeys }

\* Mutant: a usable baseline answer is kept whatever the two confidences are.
KeepsBaseline_IgnoresConfidence(answer, baseline) ==
    /\ answer.field_key \in DOMAIN baseline
    /\ baseline[answer.field_key].confidence # MISSING
    /\ Truthy(baseline[answer.field_key].answer)

\* Mutant: the baseline's answer is kept only where the new run found none.
KeepsBaseline_OnlyWhenNewMissing(answer, baseline) ==
    /\ answer.field_key \in DOMAIN baseline
    /\ baseline[answer.field_key].confidence # MISSING
    /\ Truthy(baseline[answer.field_key].answer)
    /\ ~(answer.confidence # MISSING /\ Truthy(answer.answer))

\* Whether step 7 replaces the new answer by the baseline's.
KeepsBaseline(answer, baseline) ==
    LET base == Get(baseline, answer.field_key, None)
        base_has == base.confidence # MISSING /\ Truthy(base.answer)
        new_has == answer.confidence # MISSING /\ Truthy(answer.answer)
    IN /\ answer.field_key \in DOMAIN baseline
       /\ \/ base_has /\ ~new_has
          \/ /\ base_has /\ new_has
             /\ ~(answer.confidence = HIGH /\ base.confidence = LOW)

\* Mutant: the baseline's answers are added to the list instead of replacing
\* the entries of their fields.
Reconcile_AppendsBaseline(answers, baseline) ==
    answers \o Map(SelectSeq(answers, LAMBDA a : KeepsBaseline(a, baseline)),
                   LAMBDA a : baseline[a.field_key])

\* for i, answer in enumerate(merged): ... merged[i] = base
Reconcile(answers, baseline) ==
    [i \in 1..Len(answers) |->
        IF KeepsBaseline(answers[i], baseline)
        THEN baseline[answers[i].field_key] ELSE answers[i]]

\* ---------------------------------------------------------- manual overrides
RECURSIVE lstrip(_)
lstrip(t) == IF t # <<>> /\ Head(t) = " " THEN lstrip(Tail(t)) ELSE t
\* str.strip() on a text whose only whitespace token is " ".
strip(t) == Reverse(lstrip(Reverse(lstrip(t))))

\* The values a manual override can carry: blank, plain, padded.
ManualValues == {<<" ">>, <<"m">>, <<" ", "m">>}
\* manual_overrides: a key that is absent reads as "".
ManualOverrideMaps == UNION {[D -> ManualValues] : D \in SUBSET FieldKeys}

\* Mutant: the override is stored as it was typed.
ManualAnswer_Unstripped(answer, override_val) ==
    [answer EXCEPT !.answer = override_val, !.confidence = HIGH,
                   !.source = <<"Manual entry">>, !.evidence = <<>>]

\* The body of "if override_val.strip():".
ManualAnswer(answer, override_val) ==
    [answer EXCEPT !.answer = strip(override_val), !.confidence = HIGH,
                   !.source = <<"Manual entry">>, !.evidence = <<>>]

\* for answer in merged: override_val = manual_overrides.get(answer.field_key, "")
ApplyOverrides(answers, overrides) ==
    [i \in 1..Len(answers) |->
        LET override_val == Get(overrides, answers[i].field_key, <<>>)
        IN IF strip(override_val) # <<>>
           THEN ManualAnswer(answers[i], override_val) ELSE answers[i]]

\* ------------------------------------------------------------ _do_extraction
Init ==
    /\ all_answers = [k \in FieldKeys |-> <<>>]
    /\ hubspot_data = EmptyDict
    /\ extractor = FALSE
    /\ hash_seed \in HashSeeds
    /\ merged = <<>>
    /\ potential_conflicts = EmptyDict
    /\ resolution = NoResolution
    /\ resolver_outcome = NotCalled
    /\ perm_answers = [k \in FieldKeys |-> <<>>]
    /\ merged_perm = <<>>
    /\ merged_again = <<>>
    /\ resolution_again = NoResolution
    /\ mpc = "off"
    /\ rpc = "start"
    /\ run_status = "pending"
    /\ manual_overrides = EmptyDict
    /\ pre_calibration = <<>>
    /\ baseline_map = EmptyDict
    /\ pre_reconcile = <<>>
    /\ from_baseline = {}
    /\ error_message = ""
    /\ excel_blob_path = "none"
    /\ calibration_outcome = "none"
    /\ llm_called = FALSE
    /\ sources = "unknown"
    /\ AuxOff
    /\ jobs = <<>>
    /\ job_state = <<>>
    /\ dpc = "off"

frameVars == <<all_answers, extractor, hash_seed, harnessVars, dispatchVars, auxVars>>

\* What the merge of the run deferred and what its resolver was asked.
conflictVars == <<potential_conflicts, resolution, resolver_outcome>>

\* Mutant: a run without sources goes on to the extraction.
SourceCheck_Proceeds(has_sources) ==
    [run_status |-> "extracting", error_message |-> "", rpc |-> "extract"]

\* "if not sources:" and what the run is after it.
SourceCheck(has_sources) ==
    IF has_sources
    THEN [run_status |-> "extracting", error_message |-> "", rpc |-> "extract"]
    ELSE [run_status |-> "failed",
          error_message |-> "No sources available for extraction", rpc |-> "done"]

\* Steps 1 to 4: the deal context is fetched and the sources are built; a
\* run without any source fails before extraction.
GatherSources ==
    /\ rpc = "start"
    /\ \E hd \in HubspotInputs, has_sources \in BOOLEAN :
        /\ hubspot_data' = hd
        /\ sources' = IF has_sources THEN "some" ELSE "empty"
        /\ run_status' = SourceCheck(has_sources).run_status
        /\ error_message' = SourceCheck(has_sources).error_message
        /\ rpc' = SourceCheck(has_sources).rpc
    /\ UNCHANGED <<frameVars, manual_overrides, merged, pre_calibration, baseline_map,
                   pre_reconcile, from_baseline, excel_blob_path, calibration_outcome,
                   llm_called, conflictVars>>

HasCandidates(aa) == \E k \in DOMAIN aa : aa[k] # <<>>

\* Steps 5 and 6: the dispatcher returns a candidate mapping and
\* merge_answers(all_answers, hubspot_data) merges it, without extractor.
\* The dispatcher sends one request per job; it has no job when every source
\* is shorter than 50 characters.
ExtractAndMerge ==
    /\ rpc = "extract"
    /\ \E aa \in CandidateMaps, has_jobs \in BOOLEAN :
        /\ HasCandidates(aa) => has_jobs
        /\ llm_called' = has_jobs
        /\ merged' = merge_answers(aa, hubspot_data, FALSE, NoResponse, hash_seed)
        /\ LET st == MergeLocals(aa, hubspot_data)
           IN /\ potential_conflicts' = st.potential_conflicts
              /\ resolution' = Resolution(st.potential_conflicts, FALSE, NoResponse)
              /\ resolver_outcome' =
                     ResolverOutcome(st.potential_conflicts, FALSE, NoResponse)
    /\ rpc' = "calibrate"
    /\ UNCHANGED <<frameVars, manual_overrides, hubspot_data, run_status, pre_calibration,
                   baseline_map, pre_reconcile, from_baseline, error_message,
                   excel_blob_path, calibration_outcome, sources>>

has_calibration_candidates(answers) == \E i \in 1..Len(answers) : Reviewable(answers[i])

\* Step 6b with no reviewable answer: calibrate_confidence is not called.
SkipCalibration ==
    /\ rpc = "calibrate"
    /\ ~has_calibration_candidates(merged)
    /\ rpc' = "reconcile"
    /\ UNCHANGED <<frameVars, manual_overrides, hubspot_data, merged, run_status,
                   pre_calibration, baseline_map, pre_reconcile, from_baseline,
                   error_message, excel_blob_path, calibration_outcome, llm_called, sources,
                   conflictVars>>

\* Step 6b: merged = extractor.calibrate_confidence(merged).
Calibrate ==
    /\ rpc = "calibrate"
    /\ has_calibration_candidates(merged)
    /\ \E response \in CalibrationResponses :
        /\ ~calibrate_confidence(merged, response).raised
        /\ merged' = calibrate_confidence(merged, response).answers
        /\ calibration_outcome' = CalibrationOutcome(response)
    /\ pre_calibration' = merged
    /\ llm_called' = TRUE
    /\ rpc' = "reconcile"
    /\ UNCHANGED <<frameVars, manual_overrides, hubspot_data, run_status, baseline_map,
                   pre_reconcile, from_baseline, error_message, excel_blob_path, sources,
                   conflictVars>>

\* Step 6b when calibrate_confidence raises: the handler of _do_extraction
\* marks the run failed, with the exception's text as error message.
CalibrateRaises ==
    /\ rpc = "calibrate"
    /\ has_calibration_candidates(merged)
    /\ \E response \in CalibrationResponses :
        /\ calibrate_confidence(merged, response).raised
        /\ calibration_outcome' = CalibrationOutcome(response)
    /\ pre_calibration' = merged
    /\ llm_called' = TRUE
    /\ run_status' = "failed"
    /\ error_message' = "exception"
    /\ rpc' = "done"
    /\ UNCHANGED <<frameVars, manual_overrides, hubspot_data, merged, baseline_map,
                   pre_reconcile, from_baseline, excel_blob_path, sources, conflictVars>>

\* Step 7: the answers are reconciled with those of the baseline run.
ReconcileBaseline ==
    /\ rpc = "reconcile"
    /\ \E bm \in BaselineMaps :
        /\ baseline_map' = bm
        /\ merged' = Reconcile(merged, bm)
        /\ from_baseline' = {merged[i].field_key :
                                i \in {j \in 1..Len(merged) : KeepsBaseline(merged[j], bm)}}
    /\ pre_reconcile' = merged
    /\ pre_calibration' = <<>>
    /\ calibration_outcome' = "none"
    /\ rpc' = "override"
    /\ UNCHANGED <<frameVars, manual_overrides, hubspot_data, run_status, error_message,
                   excel_blob_path, llm_called, sources, conflictVars>>

\* Steps 8 to 10: the manual overrides the run was created with are applied,
\* the spreadsheet is generated and uploaded, which may fail, and the list is
\* stored.
OverrideAndSave ==
    /\ rpc = "override"
    /\ \E mo \in ManualOverrideMaps :
        /\ manual_overrides' = mo
        /\ merged' = ApplyOverrides(merged, mo)
    /\ \E excel_ok \in BOOLEAN :
        excel_blob_path' = IF excel_ok THEN "blob" ELSE "none"
    /\ run_status' = "completed"
    /\ baseline_map' = EmptyDict
    /\ pre_reconcile' = <<>>
    /\ rpc' = "done"
    /\ UNCHANGED <<frameVars, hubspot_data, pre_calibration, from_baseline, error_message,
                   calibration_outcome, llm_called, sources, conflictVars>>

Next ==
    \/ GatherSources
    \/ ExtractAndMerge
    \/ SkipCalibration
    \/ Calibrate
    \/ CalibrateRaises
    \/ ReconcileBaseline
    \/ OverrideAndSave

Spec == Init /\ [][Next]_vars

\* The run is one thread that runs to its end: no step waits for anything but
\* its own calls, which return or raise.
FairSpec == Spec /\ WF_vars(Next)

\* ------------------------------------------------------- claims on the run
Completed == rpc = "done" /\ run_status = "completed"
\* A list of answers is in merged from merge_answers on.
HasList == rpc \in {"calibrate", "reconcile", "override"} \/ Completed
\* The override of field k that step 8 applies.
Overridden(k) == k \in DOMAIN manual_overrides /\ strip(manual_overrides[k]) # <<>>
\* high > medium > low > missing
Rank(c) == CASE c = HIGH -> 3 [] c = MEDIUM -> 2 [] c = LOW -> 1 [] OTHER -> 0

\* C1: after merge_answers, after calibrate_confidence, after the baseline
\* reconciliation and after the manual overrides, the answer list of a run has
\* exactly one entry per field of RFI_FIELDS, with the keys in RFI_FIELDS order.
C1_OneEntryPerField ==
    HasList =>
        /\ Len(merged) = NumFields
        /\ \A i \in 1..NumFields : merged[i].field_key = RFI_FIELDS[i].key

\* A completed run in which the baseline replaced the answer of one field and
\* a manual override that of another.
C1_Witness ==
    /\ Completed
    /\ from_baseline # {}
    /\ \E k \in FieldKeys : Overridden(k) /\ k \notin from_baseline
    /\ Len(merged) = NumFields

\* C2 as stated: a field whose manual override is a non-empty value ends with
\* exactly that value, confidence high and source "Manual entry".
C2_ManualOverrideWins ==
    Completed =>
        \A k \in DOMAIN manual_overrides :
            manual_overrides[k] # <<>> =>
                /\ merged[IndexOf(k)].answer = manual_overrides[k]
                /\ merged[IndexOf(k)].confidence = HIGH
                /\ merged[IndexOf(k)].source = <<"Manual entry">>

\* C2, amended: a field whose manual override is non-empty once its leading
\* and trailing whitespace is removed ends with that stripped value,
\* confidence high, source "Manual entry" and no evidence, whatever the
\* candidates, the structured data and the baseline were.
C2_StrippedOverrideWins ==
    Completed =>
        \A k \in FieldKeys :
            Overridden(k) =>
                /\ merged[IndexOf(k)].answer = strip(manual_overrides[k])
                /\ merged[IndexOf(k)].confidence = HIGH
                /\ merged[IndexOf(k)].source = <<"Manual entry">>
                /\ merged[IndexOf(k)].evidence = <<>>

\* A padded override on the field that also has a structured value and a
\* baseline answer.
C2_Witness ==
    /\ Completed
    /\ HasStructured(RFI_FIELDS[1], hubspot_data)
    /\ RFI_FIELDS[1].key \in from_baseline
    /\ RFI_FIELDS[1].key \in DOMAIN manual_overrides
    /\ manual_overrides[RFI_FIELDS[1].key] = <<" ", "m">>
    /\ merged[1].answer = <<"m">>

\* The state calibrate_confidence returns to, with the list it was given.
Calibrated == rpc = "reconcile" /\ pre_calibration # <<>>

\* C3: whatever the calibration response is, no answer's confidence after
\* calibrate_confidence ranks higher than its confidence before.
C3_CalibrationMonotone ==
    Calibrated =>
        \A i \in 1..Len(merged) :
            Rank(merged[i].confidence) <= Rank(pre_calibration[i].confidence)

\* C4: in every answer list of the pipeline an answer has confidence missing
\* if and only if its answer text is null or empty.
C4_MissingIffEmpty ==
    HasList =>
        \A i \in 1..Len(merged) :
            (merged[i].confidence = MISSING) <=> ~Truthy(merged[i].answer)

BaselinePreferred(k, c) ==
    /\ k \in DOMAIN baseline_map
    /\ baseline_map[k].confidence # MISSING
    /\ baseline_map[k].answer \notin {None, <<>>}
    /\ ~(c = HIGH /\ baseline_map[k].confidence = LOW)

JobName(i) == [j \in 1..i |-> "part"]

\* What extract_from_text does in a job: it raises, or it returns a list of
\* answers for these field keys.
JobResults ==
    {[raises |-> TRUE, keys |-> <<>>]}
    \cup {[raises |-> FALSE, keys |-> ks] :
            ks \in {<<>>, <<RFI_FIELDS[1].key>>, <<RFI_FIELDS[2].key>>,
                    <<RFI_FIELDS[1].key, RFI_FIELDS[2].key>>,
                    <<RFI_FIELDS[1].key, RFI_FIELDS[1].key>>}}

\* The answers of the i-th job: extract_from_text labels them with the job's name.
JobAnswers(i, result) ==
    [j \in 1..Len(result.keys) |-> ExtractedAnswer(result.keys[j], A, HIGH, JobName(i), E1)]

RECURSIVE AppendAll(_, _)
\* for a in answers: all_answers.setdefault(a.field_key, []).append(a)
AppendAll(acc, answers) ==
    IF answers = <<>> THEN acc
    ELSE AppendAll((Head(answers).field_key :>
                       Append(Get(acc, Head(answers).field_key, <<>>), Head(answers)))
                   @@ acc,
                   Tail(answers))

\* Mutant: the exception of a failed job leaves the loop.
Collected_Propagates(acc, i, result) ==
    IF result.raises THEN [raised |-> TRUE, all_answers |-> acc]
    ELSE [raised |-> FALSE, all_answers |-> AppendAll(acc, JobAnswers(i, result))]

\* Mutant: the answers of a job are appended twice.
Collected_Twice(acc, i, result) ==
    IF result.raises THEN [raised |-> FALSE, all_answers |-> acc]
    ELSE [raised |-> FALSE,
          all_answers |-> AppendAll(AppendAll(acc, JobAnswers(i, result)),
                                    JobAnswers(i, result))]

\* The body of "for future in as_completed(futures)": whether it raises, and
\* all_answers after it.
Collected(acc, i, result) ==
    IF result.raises THEN [raised |-> FALSE, all_answers |-> acc]
    ELSE [raised |-> FALSE, all_answers |-> AppendAll(acc, JobAnswers(i, result))]

\* len(j[1]) of a job: a chunk of at least 50 characters, here of two lengths.
JobSizes == {50, 80}

\* The jobs as they are built: what extract_from_text does in each and the
\* length of its chunk.
JobInputs == {[raises |-> r.raises, keys |-> r.keys, size |-> n] :
                r \in JobResults, n \in JobSizes}

\* Mutant: the jobs are submitted in the order they were built.
SortJobs_Unsorted(js) == js

RECURSIVE SortJobs(_)
\* jobs.sort(key=lambda j: len(j[1])): ascending, jobs of equal length in
\* the order they were built.
SortJobs(js) ==
    IF js = <<>> THEN <<>>
    ELSE LET least == CHOOSE n \in {js[i].size : i \in DOMAIN js} :
                          \A i \in DOMAIN js : n <= js[i].size
         IN SelectSeq(js, LAMBDA j : j.size = least)
            \o SortJobs(SelectSeq(js, LAMBDA j : j.size # least))

\* Mutant: the pool has one worker per job.
max_workers_PerJob(n) == IF n = 0 THEN 1 ELSE n

\* min(len(jobs), 2) or 1
max_workers(n) == IF n < 2 THEN (IF n = 0 THEN 1 ELSE n) ELSE 2

Running == {i \in DOMAIN job_state : job_state[i] = "running"}
Queued == {i \in DOMAIN job_state : job_state[i] = "queued"}

\* The jobs are built, sorted and submitted; all_answers = {}.
InitDispatch ==
    /\ jobs \in {SortJobs(js) : js \in UNION {[1..n -> JobInputs] : n \in 0..MaxJobs}}
    /\ job_state = [i \in DOMAIN jobs |-> "queued"]
    /\ dpc = "collect"
    /\ all_answers = EmptyDict
    /\ hubspot_data = EmptyDict
    /\ extractor = FALSE
    /\ hash_seed = "s1_first"
    /\ merged = <<>>
    /\ potential_conflicts = EmptyDict
    /\ resolution = NoResolution
    /\ resolver_outcome = NotCalled
    /\ perm_answers = EmptyDict
    /\ merged_perm = <<>>
    /\ merged_again = <<>>
    /\ resolution_again = NoResolution
    /\ mpc = "off"
    /\ rpc = "off"
    /\ run_status = "none"
    /\ manual_overrides = EmptyDict
    /\ pre_calibration = <<>>
    /\ baseline_map = EmptyDict
    /\ pre_reconcile = <<>>
    /\ from_baseline = {}
    /\ error_message = ""
    /\ excel_blob_path = "none"
    /\ calibration_outcome = "none"
    /\ llm_called = FALSE
    /\ sources = "unknown"
    /\ AuxOff

restVars == <<hubspot_data, extractor, hash_seed, mergeVars, harnessVars, runVars, auxVars>>

\* A worker of the pool takes the oldest queued job.
StartJob ==
    /\ dpc = "collect"
    /\ Queued # {}
    /\ Cardinality(Running) < max_workers(Len(jobs))
    /\ LET i == CHOOSE q \in Queued : \A r \in Queued : q <= r
       IN job_state' = [job_state EXCEPT ![i] = "running"]
    /\ UNCHANGED <<jobs, dpc, all_answers, restVars>>

\* extract_from_text returns or raises in its worker; the future is done.
FinishJob ==
    /\ dpc = "collect"
    /\ \E i \in Running : job_state' = [job_state EXCEPT ![i] = "done"]
    /\ UNCHANGED <<jobs, dpc, all_answers, restVars>>

\* One iteration of the as_completed loop, on a future that is done.
Collect ==
    /\ dpc = "collect"
    /\ \E i \in DOMAIN job_state :
        /\ job_state[i] = "done"
        /\ job_state' = [job_state EXCEPT ![i] = "collected"]
        /\ all_answers' = Collected(all_answers, i, jobs[i]).all_answers
        /\ dpc' = IF Collected(all_answers, i, jobs[i]).raised THEN "raised" ELSE dpc
    /\ UNCHANGED <<jobs, restVars>>

\* Every future was yielded: return all_answers.
Return ==
    /\ dpc = "collect"
    /\ \A i \in DOMAIN job_state : job_state[i] = "collected"
    /\ dpc' = "returned"
    /\ UNCHANGED <<jobs, job_state, all_answers, restVars>>

NextDispatch == StartJob \/ FinishJob \/ Collect \/ Return

SpecDispatch == InitDispatch /\ [][NextDispatch]_vars

\* ------------------------------------------------- claims on the dispatcher
Count(seq, x) == Cardinality({j \in DOMAIN seq : seq[j] = x})
\* Every answer some job could return.
JobAnswerUniverse ==
    UNION {{JobAnswers(i, jobs[i])[j] : j \in 1..Len(jobs[i].keys)} : i \in DOMAIN jobs}
\* The candidates in all_answers that carry the name of job i.
FromJob(i) ==
    {<<k, j>> \in FieldKeys \X (1..(2 * MaxJobs)) :
        /\ k \in DOMAIN all_answers
        /\ j \in DOMAIN all_answers[k]
        /\ all_answers[k][j].source = JobName(i)}

\* C6: whichever jobs raise, extract_from_multiple_sources does not raise, and
\* the mapping it returns holds every candidate of every job that succeeded,
\* as often as the job returned it and under its field key, and no candidate
\* of a job that failed.
C6_FaultIsolation ==
    /\ dpc # "raised"
    /\ dpc = "returned" =>
        \A i \in DOMAIN jobs :
            IF jobs[i].raises THEN FromJob(i) = {}
            ELSE /\ Cardinality(FromJob(i)) = Len(jobs[i].keys)
                 /\ \A a \in JobAnswerUniverse :
                        a.source = JobName(i) =>
                            Count(Get(all_answers, a.field_key, <<>>), a)
                              = Count(JobAnswers(i, jobs[i]), a)

\* The call returned after a job raised and two others succeeded, with the
\* candidates of both in the mapping.
C6_Witness ==
    /\ dpc = "returned"
    /\ \E i \in DOMAIN jobs : jobs[i].raises
    /\ Cardinality({i \in DOMAIN jobs : ~jobs[i].raises /\ jobs[i].keys # <<>>}) >= 2
    /\ \E k \in DOMAIN all_answers : Len(all_answers[k]) >= 2

\* ------------------------------------------------- claims on the resolver
\* The resolver's request failed: the call raised, the text was not JSON, or
\* an entry of the list had no "field_key".
ResolverFailed ==
    /\ resolver_outcome.called
    /\ \/ resolver_outcome.kind \in {"error", "unparseable"}
       \/ resolver_outcome.keyless

\* C11: when the resolver's call raises or its response cannot be read, every
\* deferred field is emitted CONFLICTING with confidence medium; so is a
\* deferred field the response has no verdict for; and merge_answers returns
\* its list of one entry per field all the same.
C11_ResolverFailSafe ==
    (mpc # "start" /\ resolver_outcome.called) =>
        /\ Len(merged) = NumFields
        /\ \A k \in DOMAIN potential_conflicts :
            (ResolverFailed \/ k \notin resolver_outcome.keys) =>
                /\ IsPrefix(<<"CONFLICTING: ">>, merged[IndexOf(k)].answer)
                /\ merged[IndexOf(k)].confidence = MEDIUM

\* The response names the deferred field and then an entry without
\* "field_key": the field is emitted CONFLICTING.
C11_Witness ==
    /\ mpc = "merged"
    /\ resolver_outcome.kind = "list"
    /\ resolver_outcome.keyless
    /\ \E k \in DOMAIN potential_conflicts :
        /\ k \in resolver_outcome.keys
        /\ IsPrefix(<<"CONFLICTING: ">>, merged[IndexOf(k)].answer)

\* ------------------------------------ claims on the baseline reconciliation
\* The state after step 7, with the list it started from and the baseline.
Reconciled == rpc = "override"

\* C12: for each field, the reconciliation yields the baseline's answer when
\* that is usable and the new one is not; when both are usable it yields the
\* baseline's answer unless the new one is high and the baseline's low, and
\* then the new one; when the baseline's answer is not usable or the field is
\* absent from the baseline it yields the new one.
C12_BaselineReconciliation ==
    Reconciled =>
        \A i \in 1..NumFields :
            LET new == pre_reconcile[i]
                k == RFI_FIELDS[i].key
            IN IF k \notin DOMAIN baseline_map THEN merged[i] = new
               ELSE IF ~Usable(baseline_map[k]) THEN merged[i] = new
               ELSE IF ~Usable(new) THEN merged[i] = baseline_map[k]
               ELSE IF new.confidence = HIGH /\ baseline_map[k].confidence = LOW
               THEN merged[i] = new
               ELSE merged[i] = baseline_map[k]

\* One field keeps its new high answer against a low baseline answer while
\* the other, which the new run did not find, takes the baseline's.
C12_Witness ==
    /\ Reconciled
    /\ DOMAIN baseline_map = FieldKeys
    /\ \E i, j \in 1..NumFields :
        /\ Usable(pre_reconcile[i]) /\ pre_reconcile[i].confidence = HIGH
        /\ Usable(baseline_map[RFI_FIELDS[i].key])
        /\ baseline_map[RFI_FIELDS[i].key].confidence = LOW
        /\ merged[i] = pre_reconcile[i]
        /\ ~Usable(pre_reconcile[j])
        /\ merged[j] = baseline_map[RFI_FIELDS[j].key]
        /\ merged[j] # pre_reconcile[j]

\* -------------------------------------------- claims on failures of a run
\* The calibration request failed or its response was not a list of
\* well-formed revisions.
CalibrationFailed == calibration_outcome \in {"error", "unparseable", "not_list", "malformed"}

\* C13: when the calibration call fails or its response is unparseable or
\* malformed, the run goes on to the reconciliation and every answer has the
\* confidence it had before calibration.
C13_CalibrationNonFatal ==
    CalibrationFailed =>
        /\ run_status # "failed"
        /\ rpc = "reconcile"
        /\ Len(merged) = Len(pre_calibration)
        /\ \A i \in 1..Len(merged) : merged[i].confidence = pre_calibration[i].confidence

\* C14: a run that has at least one source ends completed with a stored list
\* of one entry per field, whatever fails in the extraction jobs, in the
\* calibration or in the generation of the spreadsheet.
C14_RunCompletes ==
    (rpc = "extract") ~> (Completed /\ Len(merged) = NumFields)

\* ---------------------------------------------- specifications at rest
\* The variables of merge_answers and its harness when no call is modelled.
MergeOff ==
    /\ all_answers = EmptyDict
    /\ hubspot_data = EmptyDict
    /\ extractor = FALSE
    /\ hash_seed = "s1_first"
    /\ merged = <<>>
    /\ potential_conflicts = EmptyDict
    /\ resolution = NoResolution
    /\ resolver_outcome = NotCalled
    /\ perm_answers = EmptyDict
    /\ merged_perm = <<>>
    /\ merged_again = <<>>
    /\ resolution_again = NoResolution
    /\ mpc = "off"

\* The variables of _do_extraction when no run is modelled.
RunOff ==
    /\ rpc = "off"
    /\ run_status = "none"
    /\ manual_overrides = EmptyDict
    /\ pre_calibration = <<>>
    /\ baseline_map = EmptyDict
    /\ pre_reconcile = <<>>
    /\ from_baseline = {}
    /\ error_message = ""
    /\ excel_blob_path = "none"
    /\ calibration_outcome = "none"
    /\ llm_called = FALSE
    /\ sources = "unknown"

\* The variables of extract_from_multiple_sources when no call is modelled.
DispatchOff == jobs = <<>> /\ job_state = <<>> /\ dpc = "off"

\* ------------------------------------------------------------- _chunk_text
NL == "\n"
STAR == "*"
\* The characters of a text: a letter, the asterisk, the line feed.
Chars == {"a", STAR, NL}
Texts == UNION {[1..n -> Chars] : n \in 0..MaxLen}

\* lines[:20]
DetectionLines == 20

\* str.startswith
startswith(t, prefix) == Len(prefix) <= Len(t) /\ SubSeq(t, 1, Len(prefix)) = prefix

RECURSIVE SplitLoop(_, _, _)
SplitLoop(t, sep, cur) ==
    IF t = <<>> THEN <<cur>>
    ELSE IF startswith(t, sep)
    THEN <<cur>> \o SplitLoop(SubSeq(t, Len(sep) + 1, Len(t)), sep, <<>>)
    ELSE SplitLoop(Tail(t), sep, Append(cur, Head(t)))

\* str.split(sep): the pieces between the occurrences of sep, scanned from
\* the left.
split(t, sep) == SplitLoop(t, sep, <<>>)

\* line.strip().startswith("**"); a line holds no line feed, and strip
\* removes its blanks.
IsSpeakerLine(line) == startswith(strip(line), <<STAR, STAR>>)

\* any(line.strip().startswith("**") for line in lines[:20])
is_transcript(lines) ==
    \E i \in 1..Len(lines) : i <= DetectionLines /\ IsSpeakerLine(lines[i])

\* Mutant: a chunk is never closed before the end of the text.
Overflows_Never(current_len, unit_len, limit) == FALSE

\* current_len + len(p) > max_chars
Overflows(current_len, unit_len, limit) == current_len + unit_len > limit

RECURSIVE PackLoop(_, _, _)
\* The loop that accumulates units (paragraphs, or pairs of turns) in current
\* and closes a chunk when the next unit would overflow it.
PackLoop(units, st, limit) ==
    IF units = <<>> THEN st
    ELSE LET p == Head(units)
             closes == Overflows(st.current_len, Len(p), limit) /\ st.current # <<>>
             chunks1 == IF closes THEN Append(st.chunks, Join(st.current, <<NL, NL>>))
                        ELSE st.chunks
             current1 == IF closes THEN <<>> ELSE st.current
             len1 == IF closes THEN 0 ELSE st.current_len
         IN PackLoop(Tail(units),
                     [chunks |-> chunks1, current |-> Append(current1, p),
                      current_len |-> len1 + Len(p) + 2],
                     limit)

\* Mutant: the units still in current when the loop ends are not returned.
Pack_WithoutRest(units, limit) ==
    PackLoop(units, [chunks |-> <<>>, current |-> <<>>, current_len |-> 0], limit).chunks

\* The packing loop and the final "if current: chunks.append(...)".
Pack(units, limit) ==
    LET st == PackLoop(units, [chunks |-> <<>>, current |-> <<>>, current_len |-> 0], limit)
    IN IF st.current # <<>> THEN Append(st.chunks, Join(st.current, <<NL, NL>>))
       ELSE st.chunks

RECURSIVE TurnLoop(_, _, _)
\* for line in text.split("\n"): the speaker turns, each from a line that
\* starts with "**" to the line before the next one.
TurnLoop(lines, turns, current_turn) ==
    IF lines = <<>>
    THEN IF current_turn # <<>> THEN Append(turns, Join(current_turn, <<NL>>)) ELSE turns
    ELSE IF IsSpeakerLine(Head(lines)) /\ current_turn # <<>>
    THEN TurnLoop(Tail(lines), Append(turns, Join(current_turn, <<NL>>)), <<Head(lines)>>)
    ELSE TurnLoop(Tail(lines), turns, Append(current_turn, Head(lines)))

Turns(t) == TurnLoop(split(t, <<NL>>), <<>>, <<>>)

RECURSIVE Pairs(_)
\* The units of the while loop: two turns joined by a blank line, and the
\* last turn alone when their number is odd.
Pairs(turns) ==
    IF turns = <<>> THEN <<>>
    ELSE IF Len(turns) = 1 THEN <<turns[1]>>
    ELSE <<turns[1] \o <<NL, NL>> \o turns[2]>> \o Pairs(Tail(Tail(turns)))

chunk_transcript(t, limit) == Pack(Pairs(Turns(t)), limit)

chunk_text(t, limit) ==
    IF Len(t) <= limit THEN <<t>>
    ELSE IF is_transcript(split(t, <<NL>>)) THEN chunk_transcript(t, limit)
    ELSE Pack(split(t, <<NL, NL>>), limit)

InitChunk ==
    /\ text \in Texts
    /\ max_chars \in 1..MaxLen
    /\ chunks = <<>>
    /\ cpc = "call"
    /\ MergeOff /\ RunOff /\ DispatchOff /\ ExtractOff /\ ChainOff /\ FieldOff
    /\ CacheOff /\ RetryOff

\* chunks = self._chunk_text(text, max_chars)
ChunkText ==
    /\ cpc = "call"
    /\ chunks' = chunk_text(text, max_chars)
    /\ cpc' = "returned"
    /\ UNCHANGED <<text, max_chars, inputVars, mergeVars, harnessVars, runVars, dispatchVars,
                   extractVars, chainVars, fieldVars, cacheVars, retryVars>>

NextChunk == ChunkText

SpecChunk == InitChunk /\ [][NextChunk]_vars

\* --------------------------------------------------- claims on the chunker
\* Whether the text was chunked as a transcript.
AsTranscript == Len(text) > max_chars /\ is_transcript(split(text, <<NL>>))
\* The number of speaker turns, and of paragraphs, a chunk holds.
TurnCount(chunk) == Len(Turns(chunk))
ParagraphCount(chunk) == Len(split(chunk, <<NL, NL>>))

\* C15 as stated: every chunk has length <= max_chars unless it consists of
\* one paragraph, or of one speaker turn of a transcript, that is longer.
C15_ChunkSizeBounded ==
    cpc = "returned" =>
        \A i \in 1..Len(chunks) :
            \/ Len(chunks[i]) <= max_chars
            \/ IF AsTranscript THEN TurnCount(chunks[i]) = 1
               ELSE ParagraphCount(chunks[i]) = 1

\* C15, amended: every chunk has length <= max_chars unless it consists of
\* one unit that is longer, the unit being a paragraph, or for a transcript
\* two adjacent speaker turns joined by a blank line (the last turn alone
\* when the number of turns is odd).
C15_ChunkSizeBoundedByUnit ==
    cpc = "returned" =>
        \A i \in 1..Len(chunks) :
            \/ Len(chunks[i]) <= max_chars
            \/ IF AsTranscript THEN TurnCount(chunks[i]) <= 2
               ELSE ParagraphCount(chunks[i]) = 1

\* A transcript cut in two chunks, the first one a pair of turns that is
\* longer than max_chars while neither turn is.
C15_Witness ==
    /\ cpc = "returned"
    /\ AsTranscript
    /\ Len(chunks) = 2
    /\ Len(chunks[1]) > max_chars
    /\ TurnCount(chunks[1]) = 2
    /\ \A j \in 1..2 : Len(Turns(chunks[1])[j]) <= max_chars

\* ------------------------------------------------------- extract_from_text
max_retries == 4

\* wait = 2 ** attempt * 15
wait_Linear(n) == (n + 1) * 15

wait(n) == 2 ^ n * 15

\* Fields of the schema with their primary sources: one that is manual
\* only, one that is manual among others, two that are not manual.
ExtractionSchema ==
    << [key |-> "bellwether_team", primary_sources |-> <<"manual">>],
       [key |-> "number_of_users", primary_sources |-> <<"manual", "hubspot">>],
       [key |-> "company_name", primary_sources |-> <<"hubspot">>],
       [key |-> "ms_licensing", primary_sources |-> <<"transcript">>] >>

SchemaKeys == {ExtractionSchema[i].key : i \in DOMAIN ExtractionSchema}

\* The fields argument: absent, which stands for the whole schema, no field,
\* or one field of the schema.
FieldArguments ==
    {ExtractionSchema, <<>>} \cup {<<ExtractionSchema[i]>> : i \in DOMAIN ExtractionSchema}

\* Mutant: the manual-only fields are kept.
ExtractableFields_All(fs) == fs

\* fields = [f for f in fields if f.primary_sources != [Source.MANUAL]]
ExtractableFields(fs) == SelectSeq(fs, LAMBDA f : f.primary_sources # <<"manual">>)

\* The keys of field_map = {f.key: f for f in fields}.
field_map(fs) == {fs[i].key : i \in DOMAIN fs}

\* One object of the JSON array of a response.  The key may be that of a
\* field that was not asked for or unknown to the schema, the confidence
\* absent or outside the enum.
ResponseItems ==
    [key : SchemaKeys \cup {"unknown"}, confidence : {HIGH, LOW, "absent", "bogus"}]

\* What one call of client.messages.create meets: a rate-limit error,
\* another error of the API, a text that is not JSON even after repair, or
\* a JSON array.
ServiceResults ==
    {[kind |-> k, raw |-> <<>>] : k \in {"rate_limit", "api_error", "unrepairable"}}
    \cup {[kind |-> "list", raw |-> r] :
            r \in UNION {[1..n -> ResponseItems] : n \in 0..MaxEntries}}

\* Confidence(item.get("confidence", "missing"))
ItemConfidence(item) == IF item.confidence = "absent" THEN MISSING ELSE item.confidence

RECURSIVE BuildAnswers(_, _, _)
\* for item in raw: ... answers.append(ExtractedAnswer(...)); an item whose
\* key is not in field_map is skipped, a confidence outside the enum raises
\* ValueError.
BuildAnswers(items, acc, keys) ==
    IF items = <<>> \/ acc.raised THEN acc
    ELSE LET item == Head(items)
         IN IF item.key \notin keys THEN BuildAnswers(Tail(items), acc, keys)
            ELSE IF ItemConfidence(item) \notin Confidence
            THEN [acc EXCEPT !.raised = TRUE]
            ELSE BuildAnswers(Tail(items),
                   [acc EXCEPT !.answers =
                      Append(@, ExtractedAnswer(item.key,
                                                IF ItemConfidence(item) = MISSING
                                                THEN None ELSE A,
                                                ItemConfidence(item), S1, E1))],
                   keys)

\* extract_from_text(text, source_name) is called.
InitExtract ==
    /\ attempt = 0
    /\ requests = 0
    /\ waits = <<>>
    /\ extracted = <<>>
    /\ raised_error = ""
    /\ epc = "request"
    /\ fields \in FieldArguments
    /\ raw = <<>>
    /\ MergeOff /\ RunOff /\ DispatchOff /\ ChunkOff /\ ChainOff /\ FieldOff
    /\ CacheOff /\ RetryOff

otherVars == <<inputVars, mergeVars, harnessVars, runVars, dispatchVars, chunkVars,
               chainVars, fieldVars, cacheVars, retryVars>>

\* One pass of "for attempt in range(max_retries)": the request, and what
\* follows it when it does not meet the rate limit.
Request ==
    /\ epc = "request"
    /\ attempt < max_retries
    /\ requests' = requests + 1
    /\ \E r \in ServiceResults :
        LET built == BuildAnswers(r.raw, [raised |-> FALSE, answers |-> <<>>],
                                  field_map(ExtractableFields(fields)))
        IN /\ raw' = r.raw
           /\ CASE r.kind = "rate_limit" /\ attempt = max_retries - 1 ->
                     /\ raised_error' = "RateLimitError"
                     /\ epc' = "raised"
                     /\ UNCHANGED <<waits, extracted>>
                [] r.kind = "rate_limit" /\ attempt # max_retries - 1 ->
                     /\ waits' = Append(waits, wait(attempt))
                     /\ epc' = "sleep"
                     /\ UNCHANGED <<raised_error, extracted>>
                [] r.kind = "api_error" ->
                     /\ raised_error' = "APIError"
                     /\ epc' = "raised"
                     /\ UNCHANGED <<waits, extracted>>
                [] r.kind = "unrepairable" ->
                     /\ raised_error' = "JSONDecodeError"
                     /\ epc' = "raised"
                     /\ UNCHANGED <<waits, extracted>>
                [] r.kind = "list" /\ built.raised ->
                     /\ raised_error' = "ValueError"
                     /\ epc' = "raised"
                     /\ UNCHANGED <<waits, extracted>>
                [] r.kind = "list" /\ ~built.raised ->
                     /\ extracted' = built.answers
                     /\ epc' = "returned"
                     /\ UNCHANGED <<waits, raised_error>>
    /\ UNCHANGED <<attempt, fields, otherVars>>

\* time.sleep(wait) returns and the loop takes its next value.
Sleep ==
    /\ epc = "sleep"
    /\ attempt' = attempt + 1
    /\ epc' = "request"
    /\ UNCHANGED <<requests, waits, extracted, raised_error, fields, raw, otherVars>>

NextExtract == Request \/ Sleep

SpecExtract == InitExtract /\ [][NextExtract]_vars

\* A request returns or raises within the SDK's timeout and a sleep ends.
FairSpecExtract == SpecExtract /\ WF_vars(NextExtract)

C17_NoSourcesFatal ==
    sources = "empty" =>
        /\ rpc = "done"
        /\ run_status = "failed"
        /\ error_message # ""
        /\ ~llm_called
        /\ merged = <<>>

\* A run whose deal has structured data but no source.
C17_Witness ==
    /\ sources = "empty"
    /\ hubspot_data # EmptyDict
    /\ run_status = "failed"

\* ------------------------------------ claims on the resolver within a run
\* The state of a run right after its merge.
Merged == rpc = "calibrate"

\* C18: in a run, every field the merge deferred is submitted to the resolver
\* before its answer is emitted: it is emitted CONFLICTING only after a
\* conflicting verdict or a failure of the resolver, and with a high answer
\* that is not a CONFLICTING string when it was judged compatible.
C18_DeferredFieldsResolved ==
    Merged =>
        \A k \in DOMAIN potential_conflicts :
            LET emitted == merged[IndexOf(k)]
                compatible == Get(resolution.verdicts, k, FALSE)
            IN /\ resolver_outcome.called
               /\ IsPrefix(<<"CONFLICTING: ">>, emitted.answer) =>
                      (ResolverFailed \/ ~compatible)
               /\ compatible =>
                      /\ emitted.confidence = HIGH
                      /\ ~IsPrefix(<<"CONFLICTING: ">>, emitted.answer)

\* ------------------------------------------------------- a chain of runs
\* The number of runs of a chain.
MaxRuns == 3

\* _answer_to_dict, json.dumps and json.loads: None is stored as null and
\* read back as None, a text and the value of a confidence as themselves.
answer_to_dict(a) ==
    [field_key |-> a.field_key, answer |-> a.answer, confidence |-> a.confidence,
     source |-> a.source, evidence |-> a.evidence]

\* Mutant: the stored answers of the baseline run are not read.
baseline_map_of_Nothing(baseline_raw) == EmptyDict

\* baseline_map = {a["field_key"]: ExtractedAnswer(...) for a in baseline_raw}:
\* the last entry of a key is the one the dict keeps.
baseline_map_of(baseline_raw) ==
    [k \in {baseline_raw[i].field_key : i \in DOMAIN baseline_raw} |->
        LET last == CHOOSE i \in DOMAIN baseline_raw :
                        /\ baseline_raw[i].field_key = k
                        /\ \A j \in DOMAIN baseline_raw :
                               baseline_raw[j].field_key = k => j <= i
            d == baseline_raw[last]
        IN ExtractedAnswer(d.field_key, d.answer, d.confidence, d.source, d.evidence)]

\* What steps 5 to 6b leave for a field: no answer, an answer of each
\* confidence, a conflict, and the null answer calibration has made low.
FreshShapes ==
    { [answer |-> None, confidence |-> MISSING, source |-> <<>>, evidence |-> <<>>],
      [answer |-> A, confidence |-> LOW, source |-> S1, evidence |-> E1],
      [answer |-> A, confidence |-> MEDIUM, source |-> S1, evidence |-> E1],
      [answer |-> A, confidence |-> HIGH, source |-> S1, evidence |-> E1],
      [answer |-> <<"CONFLICTING: ">> \o A, confidence |-> MEDIUM, source |-> S2,
       evidence |-> E1],
      [answer |-> None, confidence |-> LOW, source |-> <<>>, evidence |-> <<>>] }

FreshLists ==
    { [i \in 1..NumFields |->
          ExtractedAnswer(RFI_FIELDS[i].key, sh[i].answer, sh[i].confidence,
                          sh[i].source, sh[i].evidence)] :
      sh \in [1..NumFields -> FreshShapes] }

\* The keys of the usable entries of a stored list.
UsableKeys(stored) == {stored[i].field_key : i \in {j \in DOMAIN stored : Usable(stored[j])}}

InitChain ==
    /\ answers_json = <<>>
    /\ fresh_answers = <<>>
    /\ found_before = {}
    /\ completed_runs = 0
    /\ MergeOff /\ RunOff /\ DispatchOff /\ ChunkOff /\ ExtractOff /\ FieldOff
    /\ CacheOff /\ RetryOff

\* A run that completes: steps 7 to 9 on the list of steps 5 to 6b. The first
\* run has no baseline_run_id, each later one that of the run before it.
CompleteRun ==
    /\ completed_runs < MaxRuns
    /\ \E fresh \in FreshLists, mo \in ManualOverrideMaps :
        LET baseline == IF completed_runs = 0 THEN EmptyDict
                        ELSE baseline_map_of(answers_json)
            final == ApplyOverrides(Reconcile(fresh, baseline), mo)
        IN /\ answers_json' = [i \in 1..Len(final) |-> answer_to_dict(final[i])]
           /\ fresh_answers' = fresh
    /\ found_before' = found_before \cup UsableKeys(answers_json)
    /\ completed_runs' = completed_runs + 1
    /\ UNCHANGED <<inputVars, mergeVars, harnessVars, runVars, dispatchVars, chunkVars,
                   extractVars, fieldVars, cacheVars, retryVars>>

NextChain == CompleteRun

SpecChain == InitChain /\ [][NextChain]_vars

\* C19: along a chain of completed runs, each with the run before it as its
\* baseline, a field whose stored answer was usable in one run has a usable
\* stored answer in every later run.
C19_NoRegression ==
    found_before \subseteq UsableKeys(answers_json)

\* The last run of the chain found nothing for a field that an earlier run
\* had an answer for, and the stored answer of the field is usable.
C19_Witness ==
    /\ completed_runs = MaxRuns
    /\ \E i \in 1..NumFields :
        /\ RFI_FIELDS[i].key \in found_before
        /\ ~Usable(fresh_answers[i])
        /\ Usable(answers_json[i])

\* --------------------------------------- one field through merge_answers
\* Fields of the schema: one whose structured property holds an int, one
\* whose structured property holds a text, one without structured property.
SchemaFields ==
    { [key |-> "number_of_users", hubspot_property |-> "numberofemployees"],
      [key |-> "company_name", hubspot_property |-> "name"],
      [key |-> "ms_licensing", hubspot_property |-> NoProperty] }

\* The structured data of a deal: none without a company, else the
\* company's name, a text, and its employee count, an int or None.
TypedHubspotInputs ==
    {EmptyDict}
    \cup { [p \in {"name", "numberofemployees"} |->
               IF p = "name" THEN nm ELSE ec] :
           nm \in {<<>>, H},
           ec \in {None, PyInt(<<"0">>), PyInt(<<"5", "0">>)} }

\* The candidate lists of one field, of at most MaxCands candidates.
FieldCandidates(k) ==
    UNION { {Keyed(k, sh) : sh \in [1..n -> CandidateShapes]} : n \in 0..MaxCands }

InitField ==
    /\ schema_field \in SchemaFields
    /\ \E c \in FieldCandidates(schema_field.key) :
           all_answers = [k \in {schema_field.key} |-> c]
    /\ hubspot_data \in TypedHubspotInputs
    /\ extractor = FALSE
    /\ hash_seed = "s1_first"
    /\ merged = <<>>
    /\ potential_conflicts = EmptyDict
    /\ resolution = NoResolution
    /\ resolver_outcome = NotCalled
    /\ perm_answers = EmptyDict
    /\ merged_perm = <<>>
    /\ merged_again = <<>>
    /\ resolution_again = NoResolution
    /\ mpc = "field"
    /\ RunOff /\ DispatchOff /\ ChunkOff /\ ExtractOff /\ ChainOff /\ CacheOff /\ RetryOff

\* merge_answers as the run calls it, on a schema of the one field: the pass
\* of "for f in RFI_FIELDS" for it, then the patching of a deferred field.
MergeField ==
    /\ mpc = "field"
    /\ LET st == MergeStep([merged |-> <<>>, potential_conflicts |-> EmptyDict,
                            conflict_indices |-> EmptyDict],
                           schema_field, all_answers, hubspot_data)
       IN /\ merged' = PatchConflicts(st, extractor, NoResolution, hash_seed)
          /\ potential_conflicts' = st.potential_conflicts
    /\ mpc' = "field_merged"
    /\ UNCHANGED <<inputVars, resolution, resolver_outcome, perm_answers, merged_perm,
                   merged_again, resolution_again, runVars, dispatchVars, auxVars>>

NextField == MergeField

SpecField == InitField /\ [][NextField]_vars

\* The structured data has a value for the field's property that is neither
\* null nor the empty text.
HasNonEmptyValue(f, hd) ==
    /\ f.hubspot_property \in DOMAIN hd
    /\ hd[f.hubspot_property] # None
    /\ hd[f.hubspot_property] # <<>>

\* C20: for a field that is not deferred, a non-empty structured value of the
\* field's property is the merged answer, with confidence high, whatever the
\* candidates; else, without a usable candidate, the merged answer is missing
\* and null; else it is a usable candidate that no usable candidate outranks.
C20_PriorityChain ==
    (mpc = "field_merged" /\ schema_field.key \notin DOMAIN potential_conflicts) =>
        LET k == schema_field.key
            m == merged[1]
        IN IF HasNonEmptyValue(schema_field, hubspot_data)
           THEN /\ m.answer = str(hubspot_data[schema_field.hubspot_property])
                /\ m.confidence = HIGH
           ELSE IF UsableOf(all_answers, k) = <<>>
           THEN m.confidence = MISSING /\ m.answer = None
           ELSE \E i \in 1..Len(BestOf(all_answers, k)) : m = BestOf(all_answers, k)[i]

\* Two usable high-confidence candidates of field k differ in their text.
HighDiffer(aa, k) ==
    \E i, j \in 1..Len(HighOf(aa, k)) : HighOf(aa, k)[i].answer # HighOf(aa, k)[j].answer

\* C21: a field is deferred to the conflict batch exactly when it has no
\* structured value and two of its usable high-confidence candidates differ
\* in text; a field without two such candidates is not deferred and does not
\* get a CONFLICTING answer, whatever medium or low candidates it has.
C21_DeferredIffHighDiffer ==
    mpc = "field_merged" =>
        LET k == schema_field.key
        IN /\ k \in DOMAIN potential_conflicts
                <=> (~HasNonEmptyValue(schema_field, hubspot_data)
                     /\ HighDiffer(all_answers, k))
           /\ ~HighDiffer(all_answers, k)
                => ~IsPrefix(<<"CONFLICTING: ">>, merged[1].answer)

C23_SmallestFirst ==
    \A i, j \in DOMAIN jobs :
        (job_state[i] # "queued" /\ job_state[j] = "queued") =>
            jobs[i].size <= jobs[j].size

\* A short job has been taken while a longer one waits, of a dispatch whose
\* jobs all have been built.
C23_Witness ==
    /\ dpc = "collect"
    /\ \E i, j \in DOMAIN jobs :
        /\ job_state[i] = "running"
        /\ job_state[j] = "queued"
        /\ jobs[i].size < jobs[j].size

\* The candidates of job i are in the aggregation map, each as often as the
\* job returned it and under its field key.
AppendedOnce(i) ==
    /\ Cardinality(FromJob(i)) = Len(jobs[i].keys)
    /\ \A a \in JobAnswerUniverse :
           a.source = JobName(i) =>
               Count(Get(all_answers, a.field_key, <<>>), a) = Count(JobAnswers(i, jobs[i]), a)

\* C24: the aggregation map changes only in a step of the dispatcher's
\* collection loop, never in a step of a worker; whatever the order in which
\* the workers finish, the map holds nothing of a job that is not collected
\* yet and every candidate of a collected successful job exactly once.
C24_SingleWriter ==
    /\ [][all_answers' # all_answers =>
             \E i \in DOMAIN jobs : job_state[i] = "done" /\ job_state'[i] = "collected"]_vars
    /\ [](\A i \in DOMAIN jobs :
             IF job_state[i] = "collected" /\ ~jobs[i].raises
             THEN AppendedOnce(i) ELSE FromJob(i) = {})

\* A later job was collected, with its candidates, while an earlier one that
\* will return candidates too is still in its worker.
C24_Witness ==
    /\ dpc = "collect"
    /\ \E i, j \in DOMAIN jobs :
        /\ i < j
        /\ job_state[i] = "running" /\ jobs[i].keys # <<>>
        /\ job_state[j] = "collected" /\ jobs[j].keys # <<>>
        /\ FromJob(j) # {}

\* ------------------------------------------ claims on the worker's answers
\* C25: every candidate extract_from_text returns has the key of a field it
\* was called for whose primary sources are not exactly manual entry, also
\* when the response names manual-only fields or keys outside the schema.
C25_OnlyRequestedFields ==
    epc = "returned" =>
        \A i \in DOMAIN extracted :
            \E j \in DOMAIN fields :
                /\ fields[j].key = extracted[i].field_key
                /\ fields[j].primary_sources # <<"manual">>

\* The call was for the whole schema and the response named a manual-only
\* field and a field that was asked for; only the candidate of the second
\* was returned.
C25_Witness ==
    /\ epc = "returned"
    /\ fields = ExtractionSchema
    /\ \E i \in DOMAIN raw : raw[i].key = "bellwether_team" /\ raw[i].confidence = HIGH
    /\ \E i \in DOMAIN raw : raw[i].key = "ms_licensing"
    /\ Len(extracted) = 1

\* ------------------------------------------- calibrate_confidence, called
\* What an answer of the list given to calibrate_confidence can be: missing,
\* of each confidence with answer and evidence, high without evidence, and
\* medium with an empty answer.
AnswerShapes ==
    { [answer |-> None, confidence |-> MISSING, source |-> <<>>, evidence |-> <<>>],
      [answer |-> A, confidence |-> LOW, source |-> S1, evidence |-> E1],
      [answer |-> A, confidence |-> MEDIUM, source |-> S1, evidence |-> E1],
      [answer |-> A, confidence |-> HIGH, source |-> S1, evidence |-> E1],
      [answer |-> A, confidence |-> HIGH, source |-> S2, evidence |-> <<>>],
      [answer |-> <<>>, confidence |-> MEDIUM, source |-> S1, evidence |-> E1] }

\* The lists of answers, in schema order, of at most one answer per field.
AnswerLists ==
    UNION { { [i \in 1..n |->
                 ExtractedAnswer(RFI_FIELDS[i].key, sh[i].answer, sh[i].confidence,
                                 sh[i].source, sh[i].evidence)] :
              sh \in [1..n -> AnswerShapes] } : n \in 0..NumFields }

\* "if not to_review: return answers" comes before the request.
sends_request(answers) == Reviewed(answers) # <<>>

InitCalibrate ==
    /\ pre_calibration \in AnswerLists
    /\ merged = <<>>
    /\ llm_called = FALSE
    /\ calibration_outcome = "none"
    /\ rpc = "calibration_call"
    /\ run_status = "none"
    /\ manual_overrides = EmptyDict
    /\ baseline_map = EmptyDict
    /\ pre_reconcile = <<>>
    /\ from_baseline = {}
    /\ error_message = ""
    /\ excel_blob_path = "none"
    /\ sources = "unknown"
    /\ all_answers = EmptyDict
    /\ hubspot_data = EmptyDict
    /\ extractor = FALSE
    /\ hash_seed = "s1_first"
    /\ potential_conflicts = EmptyDict
    /\ resolution = NoResolution
    /\ resolver_outcome = NotCalled
    /\ perm_answers = EmptyDict
    /\ merged_perm = <<>>
    /\ merged_again = <<>>
    /\ resolution_again = NoResolution
    /\ mpc = "off"
    /\ DispatchOff /\ AuxOff

\* calibrate_confidence(answers) from its call to its return or exception.
CalibrateCall ==
    /\ rpc = "calibration_call"
    /\ \E response \in IF sends_request(pre_calibration)
                       THEN CalibrationResponses ELSE {ListResponse(<<>>)} :
        LET out == calibrate_confidence(pre_calibration, response)
        IN /\ merged' = IF out.raised THEN <<>> ELSE out.answers
           /\ rpc' = IF out.raised THEN "calibration_raised" ELSE "calibration_returned"
           /\ calibration_outcome' = IF sends_request(pre_calibration)
                                     THEN CalibrationOutcome(response) ELSE "none"
    /\ llm_called' = sends_request(pre_calibration)
    /\ UNCHANGED <<inputVars, potential_conflicts, resolution, resolver_outcome,
                   harnessVars, run_status, manual_overrides, pre_calibration, baseline_map,
                   pre_reconcile, from_baseline, error_message, excel_blob_path, sources,
                   dispatchVars, auxVars>>

NextCalibrate == CalibrateCall

SpecCalibrate == InitCalibrate /\ [][NextCalibrate]_vars

\* An answer of confidence high or medium with an answer and evidence.
SubmittedForReview(a) ==
    /\ a.confidence \in {HIGH, MEDIUM}
    /\ a.answer # None /\ a.answer # <<>>
    /\ a.evidence # <<>>

\* C26: when no answer has confidence high or medium with a non-empty answer
\* and non-empty evidence, calibrate_confidence sends no request and returns
\* its input unchanged; whenever it returns, the list it returns has the
\* length and the field order of its input.
C26_CalibrationNoOp ==
    /\ (rpc # "calibration_call"
        /\ \A i \in DOMAIN pre_calibration : ~SubmittedForReview(pre_calibration[i]))
          => /\ rpc = "calibration_returned"
             /\ ~llm_called
             /\ merged = pre_calibration
    /\ rpc = "calibration_returned"
          => /\ Len(merged) = Len(pre_calibration)
             /\ \A i \in DOMAIN merged : merged[i].field_key = pre_calibration[i].field_key

\* A list with a high answer that has no evidence and a low one was returned
\* as it was, without request.
C26_Witness ==
    /\ rpc = "calibration_returned"
    /\ Len(pre_calibration) = NumFields
    /\ pre_calibration[1].confidence = HIGH
    /\ pre_calibration[2].confidence = LOW
    /\ ~llm_called
    /\ merged = pre_calibration

\* C28: calibrate_confidence changes the confidence only of the answers it
\* submitted for review; every other answer keeps its confidence whatever
\* keys the response names; and no answer's text, source or evidence changes.
C28_CalibrationFrame ==
    rpc = "calibration_returned" =>
        \A i \in DOMAIN merged :
            /\ ~SubmittedForReview(pre_calibration[i])
                  => merged[i].confidence = pre_calibration[i].confidence
            /\ merged[i].answer = pre_calibration[i].answer
            /\ merged[i].source = pre_calibration[i].source
            /\ merged[i].evidence = pre_calibration[i].evidence

\* ---------------------------------------------------------------- ttl_cache
\* The capacity of the cache; 500 in the source, small here so that the
\* threads of the model fill it.
MAX_ENTRIES == 2

\* The keys the wrapped functions are called with, the threads that call
\* them and the readings of the clock.
CacheKeys == {"k1", "k2", "k3", "k4"}
CacheThreads == {"t1", "t2"}
Instants == {0, 1, 2}
\* The seconds of the decorator of the function a key belongs to.
seconds(k) == IF k \in {"k1", "k2"} THEN 1 ELSE 2

Idle == [pc |-> "idle", key |-> "", now |-> 0]

\* The position of key k in the cache, 0 when it is absent.
Position(entries, k) ==
    IF \E i \in DOMAIN entries : entries[i].key = k
    THEN CHOOSE i \in DOMAIN entries : entries[i].key = k ELSE 0

\* del _cache[key]
Deleted(entries, k) == SelectSeq(entries, LAMBDA e : e.key # k)

\* min(_cache, key=lambda k: _cache[k][0]): the first of the entries that
\* expire soonest.
Oldest(entries) ==
    entries[CHOOSE i \in DOMAIN entries :
                /\ \A j \in DOMAIN entries : entries[i].expires <= entries[j].expires
                /\ \A j \in 1..(i - 1) : entries[j].expires > entries[i].expires].key

\* _cache[key] = (expires, result): a key that is present keeps its place.
Assigned(entries, k, expires) ==
    IF Position(entries, k) = 0 THEN Append(entries, [key |-> k, expires |-> expires])
    ELSE [entries EXCEPT ![Position(entries, k)].expires = expires]

\* Mutant: nothing is evicted.
Evicted_Never(entries) == entries

\* "if len(_cache) >= MAX_ENTRIES: del _cache[oldest_key]"
Evicted(entries) ==
    IF Len(entries) >= MAX_ENTRIES THEN Deleted(entries, Oldest(entries)) ELSE entries

InitCache ==
    /\ cache = <<>>
    /\ clock = 0
    /\ calls = [t \in CacheThreads |-> Idle]
    /\ cleared = -1
    /\ MergeOff /\ RunOff /\ DispatchOff /\ ChunkOff /\ ExtractOff /\ ChainOff /\ FieldOff
    /\ RetryOff

nonCacheVars == <<inputVars, mergeVars, harnessVars, runVars, dispatchVars, chunkVars,
                  extractVars, chainVars, fieldVars, retryVars>>

\* A thread calls a wrapped function: the first "with _lock" block.  A
\* fresh entry is returned, an expired one is deleted, and on a miss the
\* thread goes on to the function.
Lookup(t) ==
    /\ calls[t].pc \in {"idle", "raised"}
    /\ \E k \in CacheKeys :
        LET i == Position(cache, k)
        IN IF i # 0 /\ clock < cache[i].expires
           THEN /\ calls' = [calls EXCEPT ![t] = Idle]
                /\ UNCHANGED cache
           ELSE /\ cache' = Deleted(cache, k)
                /\ calls' = [calls EXCEPT ![t] = [pc |-> "computing", key |-> k,
                                                  now |-> clock]]
    /\ UNCHANGED <<clock, cleared, nonCacheVars>>

\* fn(*args, **kwargs) raises: nothing is stored and the exception reaches
\* the caller.
Raise(t) ==
    /\ calls[t].pc = "computing"
    /\ calls' = [calls EXCEPT ![t] = [pc |-> "raised", key |-> "", now |-> 0]]
    /\ UNCHANGED <<cache, clock, cleared, nonCacheVars>>

\* fn returns: the second "with _lock" block.
Store(t) ==
    /\ calls[t].pc = "computing"
    /\ cache' = Assigned(Evicted(cache), calls[t].key, calls[t].now + seconds(calls[t].key))
    /\ calls' = [calls EXCEPT ![t] = Idle]
    /\ UNCHANGED <<clock, cleared, nonCacheVars>>

\* clear_cache(): count = len(_cache); _cache.clear(); return count
Clear ==
    /\ cleared' = Len(cache)
    /\ cache' = <<>>
    /\ UNCHANGED <<clock, calls, nonCacheVars>>

\* Time passes.
Tick ==
    /\ clock + 1 \in Instants
    /\ clock' = clock + 1
    /\ UNCHANGED <<cache, calls, cleared, nonCacheVars>>

NextCache ==
    \/ \E t \in CacheThreads : Lookup(t) \/ Raise(t) \/ Store(t)
    \/ Clear
    \/ Tick

SpecCache == InitCache /\ [][NextCache]_vars

\* C27: whatever the interleaving of the calls of wrapped functions and of
\* clear_cache, the cache never holds more than MAX_ENTRIES entries.
C27_CacheBounded ==
    Len(cache) <= MAX_ENTRIES

\* The cache is full while both threads are in their functions, each for a
\* key that is not in the cache.
C27_Witness ==
    /\ Len(cache) = MAX_ENTRIES
    /\ \A t \in CacheThreads :
        /\ calls[t].pc = "computing"
        /\ Position(cache, calls[t].key) = 0
    /\ calls["t1"].key # calls["t2"].key


(***************************************************************************)
(* Content preservation of the chunker                                     *)
(***************************************************************************)

\* The lines of a text that are not blank, in their order.
NonBlankLines(t) == SelectSeq(split(t, <<NL>>), LAMBDA line : strip(line) # <<>>)

RECURSIVE ChunkLines(_)
\* The non-blank lines of the chunks, read in chunk order.
ChunkLines(cs) ==
    IF cs = <<>> THEN <<>> ELSE NonBlankLines(Head(cs)) \o ChunkLines(Tail(cs))

\* C29: the chunker neither loses, duplicates nor reorders content: the
\* non-blank lines of the returned chunks, read in chunk order, are the
\* non-blank lines of the input in their original order (so every non-blank
\* line is in exactly one chunk), and for a text that is not a transcript
\* joining the chunks with a blank line gives back the input.
C29_ContentPreserved ==
    cpc = "returned" =>
        /\ ChunkLines(chunks) = NonBlankLines(text)
        /\ ~is_transcript(split(text, <<NL>>)) => Join(chunks, <<NL, NL>>) = text

\* A transcript with three speaker turns that is cut into two chunks, and
\* whose chunks joined by a blank line differ from the input.
C29_Witness ==
    /\ cpc = "returned"
    /\ text = <<"a", NL, STAR, STAR, NL, STAR, STAR>>
    /\ max_chars = 6
    /\ Len(chunks) = 2
    /\ Join(chunks, <<NL, NL>>) # text


(***************************************************************************)
(* retry_field and update_answers on one run                               *)
(***************************************************************************)

\* What the dict of a stored answer holds next to its key: nothing found,
\* and a found answer.
StoredShapes ==
    { [answer |-> None, confidence |-> MISSING, source |-> <<>>, evidence |-> <<>>],
      [answer |-> A, confidence |-> HIGH, source |-> S1, evidence |-> E1] }

StoredEntries ==
    { answer_to_dict(ExtractedAnswer(k, sh.answer, sh.confidence, sh.source, sh.evidence)) :
      k \in FieldKeys, sh \in StoredShapes }

\* json.loads(answers_json), and the body of a save: a list of dicts, of
\* at most as many entries as the schema has fields.
StoredLists == UNION {[1..n -> StoredEntries] : n \in 0..NumFields}

\* body.field_key: a key of the schema, or one that get_field_by_key does
\* not know.
RetryKeys == FieldKeys \cup {"unknown"}

\* "for i, a in enumerate(existing): if a["field_key"] == field_key:
\* existing[i] = updated_answer; break"
Patched(existing, field_key, updated_answer) ==
    LET hits == {i \in 1..Len(existing) : existing[i].field_key = field_key}
    IN IF hits = {} THEN existing
       ELSE LET first == CHOOSE i \in hits : \A j \in hits : i <= j
            IN [existing EXCEPT ![first] = updated_answer]

\* The stats of step 4: total_fields, filled and by_confidence
\* (completion_pct is their quotient).
Stats(existing) ==
    [total_fields |-> Len(existing),
     filled |-> Cardinality({i \in 1..Len(existing) : existing[i].confidence # MISSING}),
     by_confidence |->
        [c \in {HIGH, MEDIUM, LOW, MISSING} |->
            Cardinality({i \in 1..Len(existing) : existing[i].confidence = c})]]

\* db.commit() after an attribute of the loaded row was assigned: the unit
\* of work writes a column whose assigned value differs from the loaded one,
\* and leaves a column alone whose assigned value equals it.
Committed(loaded, assigned, stored) == IF assigned = loaded THEN stored ELSE assigned

InitRetry ==
    /\ row_status \in {"completed", "failed"}
    /\ row_answers_json \in StoredLists
    /\ row_stats_json = Stats(row_answers_json)
    /\ retry_key \in RetryKeys
    /\ loaded_run = [answers_json |-> <<>>, stats_json |-> Stats(<<>>)]
    /\ before_write = <<>>
    /\ write_fresh = FALSE
    /\ tpc = "select"
    /\ MergeOff /\ RunOff /\ DispatchOff /\ ChunkOff /\ ExtractOff /\ ChainOff /\ FieldOff
    /\ CacheOff

nonRetryVars == <<inputVars, mergeVars, harnessVars, runVars, dispatchVars, chunkVars,
                  extractVars, chainVars, fieldVars, cacheVars>>

\* retry_field up to "await asyncio.to_thread(...)": the row is loaded into
\* the session of the request, and a run that is not completed is refused.
RetrySelect ==
    /\ tpc = "select"
    /\ IF row_status # "completed"
       THEN /\ tpc' = "refused"
            /\ UNCHANGED loaded_run
       ELSE /\ tpc' = "extracting"
            /\ loaded_run' = [answers_json |-> row_answers_json,
                              stats_json |-> row_stats_json]
    /\ UNCHANGED <<row_status, row_answers_json, row_stats_json, retry_key, before_write,
                   write_fresh, nonRetryVars>>

\* retry_single_field raises (no source, an unknown field key, a request that
\* fails): the handler ends before it assigns anything.
RetryRaise ==
    /\ tpc = "extracting"
    /\ tpc' = "raised"
    /\ UNCHANGED <<row_status, row_answers_json, row_stats_json, retry_key, loaded_run,
                   before_write, write_fresh, nonRetryVars>>

\* retry_single_field returns and retry_field commits: the new answer is
\* patched into the list the handler loaded before the re-extraction.
RetryWrite ==
    /\ tpc = "extracting"
    /\ retry_key \in FieldKeys
    /\ \E sh \in StoredShapes :
        LET result == ExtractedAnswer(retry_key, sh.answer, sh.confidence, sh.source,
                                      sh.evidence)
            existing == Patched(loaded_run.answers_json, retry_key, answer_to_dict(result))
        IN /\ row_answers_json' =
                  Committed(loaded_run.answers_json, existing, row_answers_json)
           /\ row_stats_json' =
                  Committed(loaded_run.stats_json, Stats(existing), row_stats_json)
    /\ before_write' = row_answers_json
    /\ write_fresh' = TRUE
    /\ tpc' = "written"
    /\ UNCHANGED <<row_status, retry_key, loaded_run, nonRetryVars>>

\* update_answers commits: "run.answers_json = json.dumps(body.answers)", in
\* the session of its own request.
UpdateAnswers ==
    /\ \E body \in StoredLists :
        /\ body # row_answers_json
        /\ row_answers_json' = body
    /\ before_write' = <<>>
    /\ write_fresh' = FALSE
    /\ UNCHANGED <<row_status, row_stats_json, retry_key, loaded_run, tpc, nonRetryVars>>

NextRetry == RetrySelect \/ RetryRaise \/ RetryWrite \/ UpdateAnswers

SpecRetry == InitRetry /\ [][NextRetry]_vars

\* The entries of two lists agree in number, and in content at every place
\* where the earlier list holds another field than the requested one.
OthersKept(earlier, later, field_key) ==
    /\ Len(later) = Len(earlier)
    /\ \A i \in 1..Len(earlier) :
           earlier[i].field_key # field_key => later[i] = earlier[i]

\* C30: a retry-field operation changes only the stored entry of the
\* requested field: after its write every other entry of the stored list
\* equals that entry immediately before the write, and the number and order
\* of the entries are the same, also when a save of edited answers committed
\* while the re-extraction was in progress.
C30_RetryChangesOneField ==
    write_fresh => OthersKept(before_write, row_answers_json, retry_key)

\* The write of a retry during whose re-extraction no save committed keeps
\* the other entries.
C30_RetryAloneChangesOneField ==
    (write_fresh /\ before_write = loaded_run.answers_json) =>
        OthersKept(before_write, row_answers_json, retry_key)

\* A retry has written a new answer of its field over a list of two fields
\* that no save had changed since the handler loaded it.
C30_Witness ==
    /\ write_fresh
    /\ before_write = loaded_run.answers_json
    /\ Len(before_write) = 2
    /\ before_write[1].field_key # before_write[2].field_key
    /\ row_answers_json # before_write

====
